---------------------------- MODULE Spec2Model ----------------------------
(***************************************************************************)
(* Alternative credit scoring service (FastAPI backend, v6.0.0).           *)
(*                                                                         *)
(* State machine of src/app/main.py together with the pure helpers of      *)
(* src/app/model_utils.py and src/app/feature_engineering.py.              *)
(*                                                                         *)
(* Number representation.  The program computes with 64-bit floats, and   *)
(* so does the model: a float is an IEEE-754 binary64 value (sign, odd     *)
(* mantissa, binary exponent, or an infinity or NaN), and +, -, *, /,      *)
(* comparisons and round() are computed bit for bit as the hardware and    *)
(* CPython compute them.  Mantissas and the intermediate sums, products    *)
(* and quotients are natural numbers of any size, held as sequences of     *)
(* limbs.                                                                  *)
(* Text is a sequence of one-character strings so that lower() and         *)
(* strip() are computed, not assumed.                                      *)
(***************************************************************************)
EXTENDS Integers, Sequences, FiniteSets, TLC

VARIABLES
    phase,      \* position of lifespan(): "init", "running", "crashed", "stopped"
    _state,     \* the process-wide holder  _state: dict[str, Any]
    disk,       \* what is stored at MODEL_PATH: an artifact, "missing" or "corrupt"
    training_data,  \* what is stored at DATA_PATH: the rows of a CSV, or "missing"
    last        \* the last call made to the program and what it returned

vars == <<phase, _state, disk, training_data, last>>

---------------------------------------------------------------------------
(* Bounds of the model *)

\* longest batch the model sends to /score/batch
MaxBatch == 2

---------------------------------------------------------------------------
(* Integers *)

Max2(a, b) == IF a >= b THEN a ELSE b

Min2(a, b) == IF a <= b THEN a ELSE b

---------------------------------------------------------------------------
(* Natural numbers of any size: little-endian sequences of limbs in base   *)
(* 2^14 without a most significant zero limb; <<>> is 0.                   *)

LimbBits == 14

Base == 2 ^ LimbBits

Limb(a, i) == IF i >= 1 /\ i <= Len(a) THEN a[i] ELSE 0

RECURSIVE NatTrim(_)
NatTrim(a) ==
    IF a # <<>> /\ a[Len(a)] = 0 THEN NatTrim(SubSeq(a, 1, Len(a) - 1)) ELSE a

RECURSIVE NatOfInt(_)
NatOfInt(n) == IF n = 0 THEN <<>> ELSE <<n % Base>> \o NatOfInt(n \div Base)

\* the value of a natural of at most two limbs
NatToInt(a) == Limb(a, 1) + Base * Limb(a, 2)

RECURSIVE NatAddFrom(_, _, _, _)
NatAddFrom(a, b, i, carry) ==
    IF i > Len(a) /\ i > Len(b)
    THEN (IF carry = 0 THEN <<>> ELSE <<carry>>)
    ELSE <<(Limb(a, i) + Limb(b, i) + carry) % Base>>
         \o NatAddFrom(a, b, i + 1, (Limb(a, i) + Limb(b, i) + carry) \div Base)

NatAdd(a, b) == NatAddFrom(a, b, 1, 0)

\* a - b for a >= b
RECURSIVE NatSubFrom(_, _, _, _)
NatSubFrom(a, b, i, borrow) ==
    IF i > Len(a) THEN <<>>
    ELSE <<(a[i] - Limb(b, i) - borrow) % Base>>
         \o NatSubFrom(a, b, i + 1,
                       IF a[i] - Limb(b, i) - borrow < 0 THEN 1 ELSE 0)

NatSub(a, b) == NatTrim(NatSubFrom(a, b, 1, 0))

\* -1, 0 or 1 as a < b, a = b or a > b
NatCmp(a, b) ==
    IF Len(a) # Len(b) THEN (IF Len(a) < Len(b) THEN -1 ELSE 1)
    ELSE IF a = b THEN 0
    ELSE \* the most significant limb in which they differ decides
         IF \E i \in 1..Len(a) :
               /\ a[i] > b[i]
               /\ \A j \in (i + 1)..Len(a) : a[j] = b[j]
         THEN 1 ELSE -1

\* column k of the product a * b
RECURSIVE NatColumn(_, _, _, _)
NatColumn(a, b, k, i) ==
    IF i > Len(a) \/ i > k THEN 0
    ELSE a[i] * Limb(b, k + 1 - i) + NatColumn(a, b, k, i + 1)

RECURSIVE NatMulFrom(_, _, _, _)
NatMulFrom(a, b, k, carry) ==
    IF k > Len(a) + Len(b) THEN <<>>
    ELSE LET Emit(column) ==
                 <<column % Base>> \o NatMulFrom(a, b, k + 1, column \div Base)
         IN  Emit(NatColumn(a, b, k, 1) + carry)

NatMul(a, b) ==
    IF a = <<>> \/ b = <<>> THEN <<>> ELSE NatTrim(NatMulFrom(a, b, 1, 0))

\* a * 2^n
NatShl(a, n) ==
    IF a = <<>> \/ n = 0 THEN a
    ELSE LET q == n \div LimbBits
             r == n % LimbBits
         IN  NatTrim([i \in 1..(Len(a) + q + 1) |->
                 IF i <= q THEN 0
                 ELSE (Limb(a, i - q) % (2 ^ (LimbBits - r))) * (2 ^ r)
                      + (Limb(a, i - q - 1) \div (2 ^ (LimbBits - r)))] \o <<>>)

\* a div 2^n
NatShr(a, n) ==
    LET q == n \div LimbBits
        r == n % LimbBits
    IN  IF n = 0 THEN a
        ELSE IF q >= Len(a) THEN <<>>
        ELSE NatTrim([i \in 1..(Len(a) - q) |->
                 (a[i + q] \div (2 ^ r))
                 + (Limb(a, i + q + 1) % (2 ^ r)) * (2 ^ (LimbBits - r))] \o <<>>)

\* bit j (j >= 0) of a
NatBit(a, j) == (Limb(a, (j \div LimbBits) + 1) \div (2 ^ (j % LimbBits))) % 2

\* the bits of a below bit n are all 0
NatLowZero(a, n) ==
    /\ \A i \in 1..Min2(n \div LimbBits, Len(a)) : a[i] = 0
    /\ Limb(a, (n \div LimbBits) + 1) % (2 ^ (n % LimbBits)) = 0

\* number of bits of a limb
LimbLen(x) == CHOOSE k \in 0..LimbBits : x < 2 ^ k /\ (k = 0 \/ x >= 2 ^ (k - 1))

\* number of bits of a
NatBitLen(a) ==
    IF a = <<>> THEN 0 ELSE LimbBits * (Len(a) - 1) + LimbLen(a[Len(a)])

\* number of trailing zero bits of a # 0
NatTrailingZeros(a) ==
    LET i == CHOOSE i \in 1..Len(a) : a[i] # 0 /\ \A j \in 1..(i - 1) : a[j] = 0
    IN  LimbBits * (i - 1)
        + (CHOOSE k \in 0..(LimbBits - 1) :
              a[i] % (2 ^ k) = 0 /\ a[i] % (2 ^ (k + 1)) # 0)

\* a div d and a mod d for a divisor 0 < d < 2^17, from limb i down, r being
\* the remainder of the limbs above and q the quotient of the limbs above
RECURSIVE NatShortDivFrom(_, _, _, _, _)
NatShortDivFrom(a, d, i, r, q) ==
    IF i = 0 THEN [q |-> NatTrim(q), r |-> NatOfInt(r)]
    ELSE NatShortDivFrom(a, d, i - 1, (r * Base + a[i]) % d,
                         <<(r * Base + a[i]) \div d>> \o q)

\* the value of a natural below 2^30
NatToInt3(a) == Limb(a, 1) + Base * Limb(a, 2) + Base * Base * Limb(a, 3)

\* t div b for t < b * 2^14, given a lower estimate q of it
RECURSIVE NatDigitFrom(_, _, _)
NatDigitFrom(t, b, q) ==
    IF NatCmp(t, b) < 0 THEN [q |-> q, r |-> t]
    ELSE NatDigitFrom(NatSub(t, b), b, q + 1)

\* t div b and t mod b, counted up from the lower estimate est
NatDigitAbove(t, b, est) ==
    NatDigitFrom(NatSub(t, NatMul(b, NatOfInt(est))), b, est)

\* t div b and t mod b for t < b * 2^14 and a divisor b of bh * 2^sh and a
\* little more, with 2^13 <= bh < 2^14: the quotient is estimated from below
\* with the leading bits of t and b, then counted up
NatDigit(t, b, bh, sh) ==
    NatDigitAbove(t, b, NatToInt3(NatShr(t, sh)) \div (bh + 1))

\* a div b and a mod b, limb by limb from limb i down, r being the remainder
\* and q the quotient of the limbs above
RECURSIVE NatLongDivFrom(_, _, _, _, _, _, _)
NatLongDivFrom(a, b, bh, sh, i, r, q) ==
    IF i = 0 \/ Len(r) < 0 \/ Len(q) < 0 THEN [q |-> NatTrim(q), r |-> r]
    ELSE LET Step(d) == NatLongDivFrom(a, b, bh, sh, i - 1, d.r, <<d.q>> \o q)
         IN  Step(NatDigit(NatTrim(<<a[i]>> \o r), b, bh, sh))

\* [q |-> a div b, r |-> a mod b] for b # 0
NatDivMod(a, b) ==
    IF Len(b) = 1 \/ (Len(b) = 2 /\ b[2] < 8)
    THEN NatShortDivFrom(a, NatToInt(b), Len(a), 0, <<>>)
    ELSE LET sh == NatBitLen(b) - LimbBits
         IN  NatLongDivFrom(a, b, NatToInt(NatShr(b, sh)), sh, Len(a), <<>>, <<>>)

---------------------------------------------------------------------------
(* IEEE-754 binary64 values ("float" of Python, float64 of numpy).  A      *)
(* finite value is (-1)^s * m * 2^e with m odd, or m = 0 and e = 0; each   *)
(* value has one representation, so = on finite values other than zero is *)
(* numeric equality.  Arithmetic rounds to nearest, ties to even.          *)

Zero(s) == [k |-> "fin", s |-> s, m |-> <<>>, e |-> 0]

Inf(s) == [k |-> "inf", s |-> s, m |-> <<>>, e |-> 0]

NaN == [k |-> "nan", s |-> 0, m |-> <<>>, e |-> 0]

IsNaN(x) == x.k = "nan"

IsInf(x) == x.k = "inf"

IsFinite(x) == x.k = "fin"

IsZero(x) == x.k = "fin" /\ x.m = <<>>

\* n div 2^k, rounded to nearest, ties to even; sticky says that the number
\* rounded is a little more than n
RoundShift(n, k, sticky) ==
    IF k = 0 THEN n
    ELSE NatAdd(NatShr(n, k),
                IF /\ NatBit(n, k - 1) = 1
                   /\ \/ sticky
                      \/ ~NatLowZero(n, k - 1)
                      \/ NatBit(n, k) = 1
                THEN <<1>> ELSE <<>>)

\* (-1)^s * q * 2^e for q # 0 with tz trailing zero bits
Odd(s, q, e, tz) == [k |-> "fin", s |-> s, m |-> NatShr(q, tz), e |-> e + tz]

\* (-1)^s * q * 2^e for q of at most 53 bits: an infinity beyond the largest
\* double
Normal(s, q, e) ==
    IF q = <<>> THEN Zero(s)
    ELSE IF NatBitLen(q) + e > 1024 THEN Inf(s)
    ELSE Odd(s, q, e, NatTrailingZeros(q))

\* the double nearest to (-1)^s * n * 2^e, which keeps the bits of n from bit
\* k up
PackShifted(s, n, e, sticky, k) == Normal(s, RoundShift(n, k, sticky), e + k)

\* the double nearest to (-1)^s * n * 2^e (a little more than n when sticky)
Pack(s, n, e, sticky) ==
    IF n = <<>> THEN Zero(s)
    ELSE PackShifted(s, n, e, sticky, Max2(Max2(NatBitLen(n) - 53, -1074 - e), 0))

\* float(n) for an integer n, and the float of an integer literal
F(n) == Normal(IF n < 0 THEN 1 ELSE 0, NatOfInt(IF n < 0 THEN -n ELSE n), 0)

\* position of the leading bit of a finite x # 0
Top(x) == NatBitLen(x.m) + x.e

\* |x| against |y| for finite x, y # 0: -1, 0 or 1
MagCmp(x, y) ==
    IF Top(x) # Top(y) THEN (IF Top(x) < Top(y) THEN -1 ELSE 1)
    ELSE NatCmp(NatShl(x.m, x.e - Min2(x.e, y.e)), NatShl(y.m, y.e - Min2(x.e, y.e)))

\* x against y: -1, 0, 1, or 2 when one of them is NaN
FCmp(x, y) ==
    IF IsNaN(x) \/ IsNaN(y) THEN 2
    ELSE IF IsZero(x) /\ IsZero(y) THEN 0
    ELSE IF IsZero(x) THEN (IF y.s = 0 THEN -1 ELSE 1)
    ELSE IF IsZero(y) THEN (IF x.s = 0 THEN 1 ELSE -1)
    ELSE IF x.s # y.s THEN (IF x.s = 1 THEN -1 ELSE 1)
    ELSE (IF x.s = 0 THEN 1 ELSE -1)
         * (IF IsInf(x) /\ IsInf(y) THEN 0
            ELSE IF IsInf(x) THEN 1
            ELSE IF IsInf(y) THEN -1
            ELSE MagCmp(x, y))

FLt(x, y) == FCmp(x, y) = -1

FLe(x, y) == FCmp(x, y) \in {-1, 0}

FGt(x, y) == FCmp(x, y) = 1

FGe(x, y) == FCmp(x, y) \in {0, 1}

FNeg(x) == IF IsNaN(x) THEN x ELSE [x EXCEPT !.s = 1 - x.s]

FAbs(x) == IF IsNaN(x) THEN x ELSE [x EXCEPT !.s = 0]

\* (-1)^sa * a * 2^e + (-1)^sb * b * 2^e, c being a against b
AddSigned(sa, a, sb, b, c, e) ==
    Pack(IF sa = sb \/ c > 0 THEN sa ELSE IF c = 0 THEN 0 ELSE sb,
         IF sa = sb THEN NatAdd(a, b)
         ELSE IF c > 0 THEN NatSub(a, b) ELSE NatSub(b, a),
         e, FALSE)

\* (-1)^sa * a * 2^e + (-1)^sb * b * 2^e
AddAligned(sa, a, sb, b, e) == AddSigned(sa, a, sb, b, NatCmp(a, b), e)

\* x + y
FAdd(x, y) ==
    IF IsNaN(x) \/ IsNaN(y) THEN NaN
    ELSE IF IsInf(x) THEN (IF IsInf(y) /\ y.s # x.s THEN NaN ELSE x)
    ELSE IF IsInf(y) THEN y
    ELSE IF IsZero(x) /\ IsZero(y) THEN Zero(IF x.s = 1 /\ y.s = 1 THEN 1 ELSE 0)
    ELSE IF IsZero(x) THEN y
    ELSE IF IsZero(y) THEN x
    ELSE IF Top(x) - Top(y) > 60 THEN x
    ELSE IF Top(y) - Top(x) > 60 THEN y
    ELSE AddAligned(x.s, NatShl(x.m, x.e - Min2(x.e, y.e)),
                    y.s, NatShl(y.m, y.e - Min2(x.e, y.e)), Min2(x.e, y.e))

\* x - y
FSub(x, y) == FAdd(x, FNeg(y))

\* x * y
FMul(x, y) ==
    IF IsNaN(x) \/ IsNaN(y) THEN NaN
    ELSE IF (IsInf(x) /\ IsZero(y)) \/ (IsZero(x) /\ IsInf(y)) THEN NaN
    ELSE IF IsInf(x) \/ IsInf(y) THEN Inf((x.s + y.s) % 2)
    ELSE IF IsZero(x) \/ IsZero(y) THEN Zero((x.s + y.s) % 2)
    ELSE Pack((x.s + y.s) % 2, NatMul(x.m, y.m), x.e + y.e, FALSE)

\* the double nearest to (-1)^s * (qr.q + qr.r / d) * 2^e, where qr.r < d
PackDivided(s, qr, e) == Pack(s, qr.q, e, qr.r # <<>>)

\* the double nearest to (-1)^s * (a / d) * 2^e, from the quotient to k binary
\* places
PackQuotientTo(s, a, d, e, k) == PackDivided(s, NatDivMod(NatShl(a, k), d), e - k)

\* the double nearest to (-1)^s * (a / d) * 2^e for an odd d: 55 bits of
\* the quotient and the sticky bit decide the rounding
PackQuotientOdd(s, a, d, e) ==
    PackQuotientTo(s, a, d, e,
                   IF d = <<1>> THEN 0
                   ELSE Max2(0, 55 + NatBitLen(d) - NatBitLen(a)))

\* the double nearest to (-1)^s * (a / b) * 2^e for b with tz trailing zero
\* bits
PackQuotientEven(s, a, b, e, tz) == PackQuotientOdd(s, a, NatShr(b, tz), e - tz)

\* the double nearest to (-1)^s * (a / b) * 2^e for naturals a, b # 0
PackQuotient(s, a, b, e) == PackQuotientEven(s, a, b, e, NatTrailingZeros(b))

\* x / y as the hardware and numpy compute it: a division by zero gives an
\* infinity or NaN (float.__truediv__ raises ZeroDivisionError instead)
FDiv(x, y) ==
    IF IsNaN(x) \/ IsNaN(y) THEN NaN
    ELSE IF IsInf(x) THEN (IF IsInf(y) THEN NaN ELSE Inf((x.s + y.s) % 2))
    ELSE IF IsInf(y) THEN Zero((x.s + y.s) % 2)
    ELSE IF IsZero(y) THEN (IF IsZero(x) THEN NaN ELSE Inf((x.s + y.s) % 2))
    ELSE IF IsZero(x) THEN Zero((x.s + y.s) % 2)
    ELSE PackQuotient((x.s + y.s) % 2, x.m, y.m, x.e - y.e)

\* the double a decimal literal n / 10^d denotes (|n| < 2^31, 0 <= d <= 9)
Dec(n, d) == FDiv(F(n), F(10 ^ d))

\* max(x, y) of Python: y when y > x, else x
FMax(x, y) == IF FGt(y, x) THEN y ELSE x

\* the double nearest to (-1)^s * n / 10^nd
FromPlaces(s, n, nd) ==
    IF n = <<>> THEN Zero(s) ELSE PackQuotient(s, n, NatOfInt(10 ^ nd), 0)

\* round(x, nd) of Python for nd >= 0: the decimal with nd places nearest to
\* the exact value of x, ties to even, and then the double nearest to it
FRound(x, nd) ==
    IF ~IsFinite(x) \/ IsZero(x) \/ x.e >= 0 THEN x
    ELSE FromPlaces(x.s, RoundShift(NatMul(x.m, NatOfInt(10 ^ nd)), -x.e, FALSE), nd)

\* int(x) of Python for a finite |x| < 2^28: the integer part
FTruncInt(x) ==
    IF IsZero(x) THEN 0
    ELSE (IF x.s = 1 THEN -1 ELSE 1)
         * NatToInt(IF x.e >= 0 THEN NatShl(x.m, x.e) ELSE NatShr(x.m, -x.e))

---------------------------------------------------------------------------
(* Text.  A str is the sequence of its code points. *)

\* the ASCII letters, from code points 65 and 97 on
UpperCase == <<"A","B","C","D","E","F","G","H","I","J","K","L","M",
               "N","O","P","Q","R","S","T","U","V","W","X","Y","Z">>

LowerCase == <<"a","b","c","d","e","f","g","h","i","j","k","l","m",
               "n","o","p","q","r","s","t","u","v","w","x","y","z">>

\* ord(ch) of an ASCII letter or blank
Ord(ch) ==
    IF ch = " " THEN 32
    ELSE IF ch = "\t" THEN 9
    ELSE IF ch = "\n" THEN 10
    ELSE IF ch = "\f" THEN 12
    ELSE IF ch = "\r" THEN 13
    ELSE IF \E i \in 1..Len(UpperCase) : UpperCase[i] = ch
    THEN 64 + CHOOSE i \in 1..Len(UpperCase) : UpperCase[i] = ch
    ELSE 96 + CHOOSE i \in 1..Len(LowerCase) : LowerCase[i] = ch

\* the str of a sequence of ASCII characters
Text(s) == [i \in 1..Len(s) |-> Ord(s[i])]

\* the entry of the sorted table of ranges T whose range <<first, last, ..>>
\* holds c, between entries lo and hi (0 if there is none)
RECURSIVE RangeIndex(_, _, _, _)
RangeIndex(T, c, lo, hi) ==
    IF lo > hi THEN 0
    ELSE IF c < T[(lo + hi) \div 2][1] THEN RangeIndex(T, c, lo, ((lo + hi) \div 2) - 1)
    ELSE IF c > T[(lo + hi) \div 2][2] THEN RangeIndex(T, c, ((lo + hi) \div 2) + 1, hi)
    ELSE (lo + hi) \div 2

InRanges(T, c) == RangeIndex(T, c, 1, Len(T)) # 0

\* the characters str.strip() removes (Py_UNICODE_ISSPACE): the ASCII blanks
\* "\t".."\r" and " ", the separators "\x1c".."\x1f", "\x85", "\xa0" and the
\* Unicode spaces
Whitespace ==
    (9..13) \cup (28..32) \cup {133, 160, 5760} \cup (8192..8202)
        \cup {8232, 8233, 8239, 8287, 12288}

\* the simple lower-case mapping of the Unicode database of Python 3.11:
\* <<first, last, step, delta>> maps first, first + step, .., last to the
\* character delta code points further
LowerRanges ==
    << <<65, 90, 1, 32>>, <<192, 214, 1, 32>>, <<216, 222, 1, 32>>,
       <<256, 302, 2, 1>>, <<306, 310, 2, 1>>, <<313, 327, 2, 1>>,
       <<330, 374, 2, 1>>, <<376, 376, 1, -121>>, <<377, 381, 2, 1>>,
       <<385, 385, 1, 210>>, <<386, 388, 2, 1>>, <<390, 390, 1, 206>>,
       <<391, 391, 1, 1>>, <<393, 394, 1, 205>>, <<395, 395, 1, 1>>,
       <<398, 398, 1, 79>>, <<399, 399, 1, 202>>, <<400, 400, 1, 203>>,
       <<401, 401, 1, 1>>, <<403, 403, 1, 205>>, <<404, 404, 1, 207>>,
       <<406, 406, 1, 211>>, <<407, 407, 1, 209>>, <<408, 408, 1, 1>>,
       <<412, 412, 1, 211>>, <<413, 413, 1, 213>>, <<415, 415, 1, 214>>,
       <<416, 420, 2, 1>>, <<422, 422, 1, 218>>, <<423, 423, 1, 1>>,
       <<425, 425, 1, 218>>, <<428, 428, 1, 1>>, <<430, 430, 1, 218>>,
       <<431, 431, 1, 1>>, <<433, 434, 1, 217>>, <<435, 437, 2, 1>>,
       <<439, 439, 1, 219>>, <<440, 440, 1, 1>>, <<444, 444, 1, 1>>,
       <<452, 452, 1, 2>>, <<453, 453, 1, 1>>, <<455, 455, 1, 2>>,
       <<456, 456, 1, 1>>, <<458, 458, 1, 2>>, <<459, 475, 2, 1>>,
       <<478, 494, 2, 1>>, <<497, 497, 1, 2>>, <<498, 500, 2, 1>>,
       <<502, 502, 1, -97>>, <<503, 503, 1, -56>>, <<504, 542, 2, 1>>,
       <<544, 544, 1, -130>>, <<546, 562, 2, 1>>, <<570, 570, 1, 10795>>,
       <<571, 571, 1, 1>>, <<573, 573, 1, -163>>, <<574, 574, 1, 10792>>,
       <<577, 577, 1, 1>>, <<579, 579, 1, -195>>, <<580, 580, 1, 69>>,
       <<581, 581, 1, 71>>, <<582, 590, 2, 1>>, <<880, 882, 2, 1>>,
       <<886, 886, 1, 1>>, <<895, 895, 1, 116>>, <<902, 902, 1, 38>>,
       <<904, 906, 1, 37>>, <<908, 908, 1, 64>>, <<910, 911, 1, 63>>,
       <<913, 929, 1, 32>>, <<932, 939, 1, 32>>, <<975, 975, 1, 8>>,
       <<984, 1006, 2, 1>>, <<1012, 1012, 1, -60>>, <<1015, 1015, 1, 1>>,
       <<1017, 1017, 1, -7>>, <<1018, 1018, 1, 1>>, <<1021, 1023, 1, -130>>,
       <<1024, 1039, 1, 80>>, <<1040, 1071, 1, 32>>, <<1120, 1152, 2, 1>>,
       <<1162, 1214, 2, 1>>, <<1216, 1216, 1, 15>>, <<1217, 1229, 2, 1>>,
       <<1232, 1326, 2, 1>>, <<1329, 1366, 1, 48>>, <<4256, 4293, 1, 7264>>,
       <<4295, 4295, 1, 7264>>, <<4301, 4301, 1, 7264>>,
       <<5024, 5103, 1, 38864>>, <<5104, 5109, 1, 8>>,
       <<7312, 7354, 1, -3008>>, <<7357, 7359, 1, -3008>>,
       <<7680, 7828, 2, 1>>, <<7838, 7838, 1, -7615>>, <<7840, 7934, 2, 1>>,
       <<7944, 7951, 1, -8>>, <<7960, 7965, 1, -8>>, <<7976, 7983, 1, -8>>,
       <<7992, 7999, 1, -8>>, <<8008, 8013, 1, -8>>, <<8025, 8031, 2, -8>>,
       <<8040, 8047, 1, -8>>, <<8072, 8079, 1, -8>>, <<8088, 8095, 1, -8>>,
       <<8104, 8111, 1, -8>>, <<8120, 8121, 1, -8>>, <<8122, 8123, 1, -74>>,
       <<8124, 8124, 1, -9>>, <<8136, 8139, 1, -86>>, <<8140, 8140, 1, -9>>,
       <<8152, 8153, 1, -8>>, <<8154, 8155, 1, -100>>, <<8168, 8169, 1, -8>>,
       <<8170, 8171, 1, -112>>, <<8172, 8172, 1, -7>>,
       <<8184, 8185, 1, -128>>, <<8186, 8187, 1, -126>>,
       <<8188, 8188, 1, -9>>, <<8486, 8486, 1, -7517>>,
       <<8490, 8490, 1, -8383>>, <<8491, 8491, 1, -8262>>,
       <<8498, 8498, 1, 28>>, <<8544, 8559, 1, 16>>, <<8579, 8579, 1, 1>>,
       <<9398, 9423, 1, 26>>, <<11264, 11311, 1, 48>>,
       <<11360, 11360, 1, 1>>, <<11362, 11362, 1, -10743>>,
       <<11363, 11363, 1, -3814>>, <<11364, 11364, 1, -10727>>,
       <<11367, 11371, 2, 1>>, <<11373, 11373, 1, -10780>>,
       <<11374, 11374, 1, -10749>>, <<11375, 11375, 1, -10783>>,
       <<11376, 11376, 1, -10782>>, <<11378, 11378, 1, 1>>,
       <<11381, 11381, 1, 1>>, <<11390, 11391, 1, -10815>>,
       <<11392, 11490, 2, 1>>, <<11499, 11501, 2, 1>>,
       <<11506, 11506, 1, 1>>, <<42560, 42604, 2, 1>>,
       <<42624, 42650, 2, 1>>, <<42786, 42798, 2, 1>>,
       <<42802, 42862, 2, 1>>, <<42873, 42875, 2, 1>>,
       <<42877, 42877, 1, -35332>>, <<42878, 42886, 2, 1>>,
       <<42891, 42891, 1, 1>>, <<42893, 42893, 1, -42280>>,
       <<42896, 42898, 2, 1>>, <<42902, 42920, 2, 1>>,
       <<42922, 42922, 1, -42308>>, <<42923, 42923, 1, -42319>>,
       <<42924, 42924, 1, -42315>>, <<42925, 42925, 1, -42305>>,
       <<42926, 42926, 1, -42308>>, <<42928, 42928, 1, -42258>>,
       <<42929, 42929, 1, -42282>>, <<42930, 42930, 1, -42261>>,
       <<42931, 42931, 1, 928>>, <<42932, 42946, 2, 1>>,
       <<42948, 42948, 1, -48>>, <<42949, 42949, 1, -42307>>,
       <<42950, 42950, 1, -35384>>, <<42951, 42953, 2, 1>>,
       <<42960, 42960, 1, 1>>, <<42966, 42968, 2, 1>>,
       <<42997, 42997, 1, 1>>, <<65313, 65338, 1, 32>>,
       <<66560, 66599, 1, 40>>, <<66736, 66771, 1, 40>>,
       <<66928, 66938, 1, 39>>, <<66940, 66954, 1, 39>>,
       <<66956, 66962, 1, 39>>, <<66964, 66965, 1, 39>>,
       <<68736, 68786, 1, 64>>, <<71840, 71871, 1, 32>>,
       <<93760, 93791, 1, 32>>, <<125184, 125217, 1, 34>> >>

\* the case-ignorable characters (_PyUnicode_IsCaseIgnorable): <<first, last>>
CaseIgnorableRanges ==
    << <<39, 39>>, <<46, 46>>, <<58, 58>>, <<94, 94>>, <<96, 96>>,
       <<168, 168>>, <<173, 173>>, <<175, 175>>, <<180, 180>>, <<183, 184>>,
       <<688, 879>>, <<884, 885>>, <<890, 890>>, <<900, 901>>, <<903, 903>>,
       <<1155, 1161>>, <<1369, 1369>>, <<1375, 1375>>, <<1425, 1469>>,
       <<1471, 1471>>, <<1473, 1474>>, <<1476, 1477>>, <<1479, 1479>>,
       <<1524, 1524>>, <<1536, 1541>>, <<1552, 1562>>, <<1564, 1564>>,
       <<1600, 1600>>, <<1611, 1631>>, <<1648, 1648>>, <<1750, 1757>>,
       <<1759, 1768>>, <<1770, 1773>>, <<1807, 1807>>, <<1809, 1809>>,
       <<1840, 1866>>, <<1958, 1968>>, <<2027, 2037>>, <<2042, 2042>>,
       <<2045, 2045>>, <<2070, 2093>>, <<2137, 2139>>, <<2184, 2184>>,
       <<2192, 2193>>, <<2200, 2207>>, <<2249, 2306>>, <<2362, 2362>>,
       <<2364, 2364>>, <<2369, 2376>>, <<2381, 2381>>, <<2385, 2391>>,
       <<2402, 2403>>, <<2417, 2417>>, <<2433, 2433>>, <<2492, 2492>>,
       <<2497, 2500>>, <<2509, 2509>>, <<2530, 2531>>, <<2558, 2558>>,
       <<2561, 2562>>, <<2620, 2620>>, <<2625, 2626>>, <<2631, 2632>>,
       <<2635, 2637>>, <<2641, 2641>>, <<2672, 2673>>, <<2677, 2677>>,
       <<2689, 2690>>, <<2748, 2748>>, <<2753, 2757>>, <<2759, 2760>>,
       <<2765, 2765>>, <<2786, 2787>>, <<2810, 2815>>, <<2817, 2817>>,
       <<2876, 2876>>, <<2879, 2879>>, <<2881, 2884>>, <<2893, 2893>>,
       <<2901, 2902>>, <<2914, 2915>>, <<2946, 2946>>, <<3008, 3008>>,
       <<3021, 3021>>, <<3072, 3072>>, <<3076, 3076>>, <<3132, 3132>>,
       <<3134, 3136>>, <<3142, 3144>>, <<3146, 3149>>, <<3157, 3158>>,
       <<3170, 3171>>, <<3201, 3201>>, <<3260, 3260>>, <<3263, 3263>>,
       <<3270, 3270>>, <<3276, 3277>>, <<3298, 3299>>, <<3328, 3329>>,
       <<3387, 3388>>, <<3393, 3396>>, <<3405, 3405>>, <<3426, 3427>>,
       <<3457, 3457>>, <<3530, 3530>>, <<3538, 3540>>, <<3542, 3542>>,
       <<3633, 3633>>, <<3636, 3642>>, <<3654, 3662>>, <<3761, 3761>>,
       <<3764, 3772>>, <<3782, 3782>>, <<3784, 3789>>, <<3864, 3865>>,
       <<3893, 3893>>, <<3895, 3895>>, <<3897, 3897>>, <<3953, 3966>>,
       <<3968, 3972>>, <<3974, 3975>>, <<3981, 3991>>, <<3993, 4028>>,
       <<4038, 4038>>, <<4141, 4144>>, <<4146, 4151>>, <<4153, 4154>>,
       <<4157, 4158>>, <<4184, 4185>>, <<4190, 4192>>, <<4209, 4212>>,
       <<4226, 4226>>, <<4229, 4230>>, <<4237, 4237>>, <<4253, 4253>>,
       <<4348, 4348>>, <<4957, 4959>>, <<5906, 5908>>, <<5938, 5939>>,
       <<5970, 5971>>, <<6002, 6003>>, <<6068, 6069>>, <<6071, 6077>>,
       <<6086, 6086>>, <<6089, 6099>>, <<6103, 6103>>, <<6109, 6109>>,
       <<6155, 6159>>, <<6211, 6211>>, <<6277, 6278>>, <<6313, 6313>>,
       <<6432, 6434>>, <<6439, 6440>>, <<6450, 6450>>, <<6457, 6459>>,
       <<6679, 6680>>, <<6683, 6683>>, <<6742, 6742>>, <<6744, 6750>>,
       <<6752, 6752>>, <<6754, 6754>>, <<6757, 6764>>, <<6771, 6780>>,
       <<6783, 6783>>, <<6823, 6823>>, <<6832, 6862>>, <<6912, 6915>>,
       <<6964, 6964>>, <<6966, 6970>>, <<6972, 6972>>, <<6978, 6978>>,
       <<7019, 7027>>, <<7040, 7041>>, <<7074, 7077>>, <<7080, 7081>>,
       <<7083, 7085>>, <<7142, 7142>>, <<7144, 7145>>, <<7149, 7149>>,
       <<7151, 7153>>, <<7212, 7219>>, <<7222, 7223>>, <<7288, 7293>>,
       <<7376, 7378>>, <<7380, 7392>>, <<7394, 7400>>, <<7405, 7405>>,
       <<7412, 7412>>, <<7416, 7417>>, <<7468, 7530>>, <<7544, 7544>>,
       <<7579, 7679>>, <<8125, 8125>>, <<8127, 8129>>, <<8141, 8143>>,
       <<8157, 8159>>, <<8173, 8175>>, <<8189, 8190>>, <<8203, 8207>>,
       <<8216, 8217>>, <<8228, 8228>>, <<8231, 8231>>, <<8234, 8238>>,
       <<8288, 8292>>, <<8294, 8303>>, <<8305, 8305>>, <<8319, 8319>>,
       <<8336, 8348>>, <<8400, 8432>>, <<11388, 11389>>, <<11503, 11505>>,
       <<11631, 11631>>, <<11647, 11647>>, <<11744, 11775>>,
       <<11823, 11823>>, <<12293, 12293>>, <<12330, 12333>>,
       <<12337, 12341>>, <<12347, 12347>>, <<12441, 12446>>,
       <<12540, 12542>>, <<40981, 40981>>, <<42232, 42237>>,
       <<42508, 42508>>, <<42607, 42610>>, <<42612, 42621>>,
       <<42623, 42623>>, <<42652, 42655>>, <<42736, 42737>>,
       <<42752, 42785>>, <<42864, 42864>>, <<42888, 42890>>,
       <<42994, 42996>>, <<43000, 43001>>, <<43010, 43010>>,
       <<43014, 43014>>, <<43019, 43019>>, <<43045, 43046>>,
       <<43052, 43052>>, <<43204, 43205>>, <<43232, 43249>>,
       <<43263, 43263>>, <<43302, 43309>>, <<43335, 43345>>,
       <<43392, 43394>>, <<43443, 43443>>, <<43446, 43449>>,
       <<43452, 43453>>, <<43471, 43471>>, <<43493, 43494>>,
       <<43561, 43566>>, <<43569, 43570>>, <<43573, 43574>>,
       <<43587, 43587>>, <<43596, 43596>>, <<43632, 43632>>,
       <<43644, 43644>>, <<43696, 43696>>, <<43698, 43700>>,
       <<43703, 43704>>, <<43710, 43711>>, <<43713, 43713>>,
       <<43741, 43741>>, <<43756, 43757>>, <<43763, 43764>>,
       <<43766, 43766>>, <<43867, 43871>>, <<43881, 43883>>,
       <<44005, 44005>>, <<44008, 44008>>, <<44013, 44013>>,
       <<64286, 64286>>, <<64434, 64450>>, <<65024, 65039>>,
       <<65043, 65043>>, <<65056, 65071>>, <<65106, 65106>>,
       <<65109, 65109>>, <<65279, 65279>>, <<65287, 65287>>,
       <<65294, 65294>>, <<65306, 65306>>, <<65342, 65342>>,
       <<65344, 65344>>, <<65392, 65392>>, <<65438, 65439>>,
       <<65507, 65507>>, <<65529, 65531>>, <<66045, 66045>>,
       <<66272, 66272>>, <<66422, 66426>>, <<67456, 67461>>,
       <<67463, 67504>>, <<67506, 67514>>, <<68097, 68099>>,
       <<68101, 68102>>, <<68108, 68111>>, <<68152, 68154>>,
       <<68159, 68159>>, <<68325, 68326>>, <<68900, 68903>>,
       <<69291, 69292>>, <<69446, 69456>>, <<69506, 69509>>,
       <<69633, 69633>>, <<69688, 69702>>, <<69744, 69744>>,
       <<69747, 69748>>, <<69759, 69761>>, <<69811, 69814>>,
       <<69817, 69818>>, <<69821, 69821>>, <<69826, 69826>>,
       <<69837, 69837>>, <<69888, 69890>>, <<69927, 69931>>,
       <<69933, 69940>>, <<70003, 70003>>, <<70016, 70017>>,
       <<70070, 70078>>, <<70089, 70092>>, <<70095, 70095>>,
       <<70191, 70193>>, <<70196, 70196>>, <<70198, 70199>>,
       <<70206, 70206>>, <<70367, 70367>>, <<70371, 70378>>,
       <<70400, 70401>>, <<70459, 70460>>, <<70464, 70464>>,
       <<70502, 70508>>, <<70512, 70516>>, <<70712, 70719>>,
       <<70722, 70724>>, <<70726, 70726>>, <<70750, 70750>>,
       <<70835, 70840>>, <<70842, 70842>>, <<70847, 70848>>,
       <<70850, 70851>>, <<71090, 71093>>, <<71100, 71101>>,
       <<71103, 71104>>, <<71132, 71133>>, <<71219, 71226>>,
       <<71229, 71229>>, <<71231, 71232>>, <<71339, 71339>>,
       <<71341, 71341>>, <<71344, 71349>>, <<71351, 71351>>,
       <<71453, 71455>>, <<71458, 71461>>, <<71463, 71467>>,
       <<71727, 71735>>, <<71737, 71738>>, <<71995, 71996>>,
       <<71998, 71998>>, <<72003, 72003>>, <<72148, 72151>>,
       <<72154, 72155>>, <<72160, 72160>>, <<72193, 72202>>,
       <<72243, 72248>>, <<72251, 72254>>, <<72263, 72263>>,
       <<72273, 72278>>, <<72281, 72283>>, <<72330, 72342>>,
       <<72344, 72345>>, <<72752, 72758>>, <<72760, 72765>>,
       <<72767, 72767>>, <<72850, 72871>>, <<72874, 72880>>,
       <<72882, 72883>>, <<72885, 72886>>, <<73009, 73014>>,
       <<73018, 73018>>, <<73020, 73021>>, <<73023, 73029>>,
       <<73031, 73031>>, <<73104, 73105>>, <<73109, 73109>>,
       <<73111, 73111>>, <<73459, 73460>>, <<78896, 78904>>,
       <<92912, 92916>>, <<92976, 92982>>, <<92992, 92995>>,
       <<94031, 94031>>, <<94095, 94111>>, <<94176, 94177>>,
       <<94179, 94180>>, <<110576, 110579>>, <<110581, 110587>>,
       <<110589, 110590>>, <<113821, 113822>>, <<113824, 113827>>,
       <<118528, 118573>>, <<118576, 118598>>, <<119143, 119145>>,
       <<119155, 119170>>, <<119173, 119179>>, <<119210, 119213>>,
       <<119362, 119364>>, <<121344, 121398>>, <<121403, 121452>>,
       <<121461, 121461>>, <<121476, 121476>>, <<121499, 121503>>,
       <<121505, 121519>>, <<122880, 122886>>, <<122888, 122904>>,
       <<122907, 122913>>, <<122915, 122916>>, <<122918, 122922>>,
       <<123184, 123197>>, <<123566, 123566>>, <<123628, 123631>>,
       <<125136, 125142>>, <<125252, 125259>>, <<127995, 127999>>,
       <<917505, 917505>>, <<917536, 917631>>, <<917760, 917999>> >>

\* the cased characters (_PyUnicode_IsCased) among those that are not
\* case-ignorable: <<first, last>>
CasedRanges ==
    << <<65, 90>>, <<97, 122>>, <<170, 170>>, <<181, 181>>, <<186, 186>>,
       <<192, 214>>, <<216, 246>>, <<248, 442>>, <<444, 447>>, <<452, 659>>,
       <<661, 687>>, <<880, 883>>, <<886, 887>>, <<891, 893>>, <<895, 895>>,
       <<902, 902>>, <<904, 906>>, <<908, 908>>, <<910, 929>>, <<931, 1013>>,
       <<1015, 1153>>, <<1162, 1327>>, <<1329, 1366>>, <<1376, 1416>>,
       <<4256, 4293>>, <<4295, 4295>>, <<4301, 4301>>, <<4304, 4346>>,
       <<4349, 4351>>, <<5024, 5109>>, <<5112, 5117>>, <<7296, 7304>>,
       <<7312, 7354>>, <<7357, 7359>>, <<7424, 7467>>, <<7531, 7543>>,
       <<7545, 7578>>, <<7680, 7957>>, <<7960, 7965>>, <<7968, 8005>>,
       <<8008, 8013>>, <<8016, 8023>>, <<8025, 8025>>, <<8027, 8027>>,
       <<8029, 8029>>, <<8031, 8061>>, <<8064, 8116>>, <<8118, 8124>>,
       <<8126, 8126>>, <<8130, 8132>>, <<8134, 8140>>, <<8144, 8147>>,
       <<8150, 8155>>, <<8160, 8172>>, <<8178, 8180>>, <<8182, 8188>>,
       <<8450, 8450>>, <<8455, 8455>>, <<8458, 8467>>, <<8469, 8469>>,
       <<8473, 8477>>, <<8484, 8484>>, <<8486, 8486>>, <<8488, 8488>>,
       <<8490, 8493>>, <<8495, 8500>>, <<8505, 8505>>, <<8508, 8511>>,
       <<8517, 8521>>, <<8526, 8526>>, <<8544, 8575>>, <<8579, 8580>>,
       <<9398, 9449>>, <<11264, 11387>>, <<11390, 11492>>, <<11499, 11502>>,
       <<11506, 11507>>, <<11520, 11557>>, <<11559, 11559>>,
       <<11565, 11565>>, <<42560, 42605>>, <<42624, 42651>>,
       <<42786, 42863>>, <<42865, 42887>>, <<42891, 42894>>,
       <<42896, 42954>>, <<42960, 42961>>, <<42963, 42963>>,
       <<42965, 42969>>, <<42997, 42998>>, <<43002, 43002>>,
       <<43824, 43866>>, <<43872, 43880>>, <<43888, 43967>>,
       <<64256, 64262>>, <<64275, 64279>>, <<65313, 65338>>,
       <<65345, 65370>>, <<66560, 66639>>, <<66736, 66771>>,
       <<66776, 66811>>, <<66928, 66938>>, <<66940, 66954>>,
       <<66956, 66962>>, <<66964, 66965>>, <<66967, 66977>>,
       <<66979, 66993>>, <<66995, 67001>>, <<67003, 67004>>,
       <<68736, 68786>>, <<68800, 68850>>, <<71840, 71903>>,
       <<93760, 93823>>, <<119808, 119892>>, <<119894, 119964>>,
       <<119966, 119967>>, <<119970, 119970>>, <<119973, 119974>>,
       <<119977, 119980>>, <<119982, 119993>>, <<119995, 119995>>,
       <<119997, 120003>>, <<120005, 120069>>, <<120071, 120074>>,
       <<120077, 120084>>, <<120086, 120092>>, <<120094, 120121>>,
       <<120123, 120126>>, <<120128, 120132>>, <<120134, 120134>>,
       <<120138, 120144>>, <<120146, 120485>>, <<120488, 120512>>,
       <<120514, 120538>>, <<120540, 120570>>, <<120572, 120596>>,
       <<120598, 120628>>, <<120630, 120654>>, <<120656, 120686>>,
       <<120688, 120712>>, <<120714, 120744>>, <<120746, 120770>>,
       <<120772, 120779>>, <<122624, 122633>>, <<122635, 122654>>,
       <<125184, 125251>>, <<127280, 127305>>, <<127312, 127337>>,
       <<127344, 127369>> >>

\* the simple lower-case mapping of c, by entry k of LowerRanges
LowerByEntry(c, k) ==
    IF k # 0 /\ (c - LowerRanges[k][1]) % LowerRanges[k][3] = 0
    THEN c + LowerRanges[k][4]
    ELSE c

\* str.lower() on a str of the one character c: capital I with dot above
\* becomes two characters, capital sigma on its own is not final
LowerChar(c) ==
    IF c = 304 THEN <<105, 775>>
    ELSE IF c = 931 THEN <<963>>
    ELSE <<LowerByEntry(c, RangeIndex(LowerRanges, c, 1, Len(LowerRanges)))>>

\* the last character before position i, and the first after it, that is
\* not case-ignorable (0 if there is none)
RECURSIVE LetterBefore(_, _)
LetterBefore(s, i) ==
    IF i = 1 THEN 0
    ELSE IF InRanges(CaseIgnorableRanges, s[i - 1]) THEN LetterBefore(s, i - 1)
    ELSE s[i - 1]

RECURSIVE LetterAfter(_, _)
LetterAfter(s, i) ==
    IF i = Len(s) THEN 0
    ELSE IF InRanges(CaseIgnorableRanges, s[i + 1]) THEN LetterAfter(s, i + 1)
    ELSE s[i + 1]

\* handle_capital_sigma: the capital sigma at position i ends a word
FinalSigma(s, i) ==
    /\ LetterBefore(s, i) # 0
    /\ InRanges(CasedRanges, LetterBefore(s, i))
    /\ \/ LetterAfter(s, i) = 0
       \/ ~InRanges(CasedRanges, LetterAfter(s, i))

\* str.lower() from position i on
RECURSIVE LowerFrom(_, _)
LowerFrom(s, i) ==
    IF i > Len(s) THEN <<>>
    ELSE (IF s[i] = 931 THEN <<IF FinalSigma(s, i) THEN 962 ELSE 963>>
          ELSE LowerChar(s[i]))
         \o LowerFrom(s, i + 1)

\* str.lower()
Lower(s) == LowerFrom(s, 1)

\* str.strip(): drop leading and trailing whitespace
Strip(s) ==
    LET keep == {i \in 1..Len(s) : s[i] \notin Whitespace}
    IN  IF keep = {} THEN <<>>
        ELSE LET lo == CHOOSE i \in keep : \A j \in keep : i <= j
                 hi == CHOOSE i \in keep : \A j \in keep : i >= j
             IN  SubSeq(s, lo, hi)

\* body.profile_type.lower().strip()
NormalizeProfile(s) == Strip(Lower(s))

salaried   == Text(<<"s","a","l","a","r","i","e","d">>)
student    == Text(<<"s","t","u","d","e","n","t">>)
gig        == Text(<<"g","i","g">>)
shopkeeper == Text(<<"s","h","o","p","k","e","e","p","e","r">>)
rural      == Text(<<"r","u","r","a","l">>)

PROFILE_TYPES == <<salaried, student, gig, shopkeeper, rural>>

InProfileTypes(p) == \E i \in 1..Len(PROFILE_TYPES) : PROFILE_TYPES[i] = p

---------------------------------------------------------------------------
(* model_utils.py *)

\* the outcome of a computation: the value it returns or the exception it
\* raises
Ok(v) == [ok |-> TRUE, v |-> v]

Raised(v) == [ok |-> FALSE, v |-> v]

\* the float of the literal with n hundredths: 0.30 is Pct(30)
Pct(n) == Dec(n, 2)

MinScore == 300

MaxScore == 900

ScoreBase == 300

ScoreSpan == 600

\* int(max(300, min(900, r))) for a number r
Clamped(r) ==
    IF FLt(r, F(MaxScore))
    THEN (IF FGt(r, F(MinScore)) THEN FTruncInt(r) ELSE MinScore)
    ELSE MaxScore

\* int(max(300, min(900, round(score)))): round raises ValueError on nan and
\* OverflowError on an infinity, and gives the nearest integer, of any size,
\* otherwise
Rounded(score) ==
    IF IsNaN(score) THEN Raised("ValueError")
    ELSE IF IsInf(score) THEN Raised("OverflowError")
    ELSE Ok(Clamped(FRound(score, 0)))

\* probability_to_score: p = float(probability);
\* score = 300.0 + (p * 600.0); int(max(300, min(900, round(score))))
probability_to_score(probability) ==
    Rounded(FAdd(F(ScoreBase), FMul(probability, F(ScoreSpan))))

\* a variant whose comparisons are <= instead of <
probability_to_risk_band_inclusive(p_default) ==
    IF FLe(p_default, Pct(30)) THEN "Low"
    ELSE IF FLe(p_default, Pct(55)) THEN "Medium"
    ELSE "High"

\* probability_to_risk_band
probability_to_risk_band(p_default) ==
    IF FLt(p_default, Pct(30)) THEN "Low"
    ELSE IF FLt(p_default, Pct(55)) THEN "Medium"
    ELSE "High"

---------------------------------------------------------------------------
(* main.py: configuration *)

PROFILE_THRESHOLDS ==
    (salaried :> Pct(40)) @@ (student :> Pct(35)) @@ (gig :> Pct(40))
    @@ (shopkeeper :> Pct(40)) @@ (rural :> Pct(35))

\* a variant that ignores the table
_get_threshold_flat(profile) == Pct(40)

\* a variant whose cautious profiles are flagged from 0.25 on
_get_threshold_cautious(profile) ==
    LET Lookup(table) ==
            IF profile \in {student, rural} THEN Pct(25)
            ELSE IF profile \in DOMAIN table THEN table[profile]
            ELSE Pct(40)
    IN  Lookup(PROFILE_THRESHOLDS)

\* PROFILE_THRESHOLDS.get(profile, 0.40)
_get_threshold(profile) ==
    LET Lookup(table) == IF profile \in DOMAIN table THEN table[profile] ELSE Pct(40)
    IN  Lookup(PROFILE_THRESHOLDS)

---------------------------------------------------------------------------
(* feature_engineering.py *)

FEATURE_ORDER == <<
    "f_monthly_income", "f_income_variance", "f_savings_balance",
    "f_months_active", "f_income_stability", "f_savings_ratio",
    "f_liquidity_buffer",
    "f_total_credits", "f_total_debits", "f_total_transactions",
    "f_avg_credit_amount", "f_avg_debit_amount", "f_recurring_ratio",
    "f_net_cashflow", "f_credit_debit_ratio",
    "f_gpa", "f_attendance_rate", "f_platform_rating", "f_avg_weekly_hours",
    "f_business_years", "f_avg_daily_revenue", "f_land_size_acres",
    "f_subsidy_amount", "f_seasonality_index",
    "f_is_student", "f_is_gig", "f_is_shopkeeper", "f_is_rural",
    "stability_adjusted_income", "income_risk_index", "missed_payment_proxy",
    "net_cashflow_ratio", "profile_income_signal", "profile_rating_signal",
    "transaction_density" >>

\* the keyword parameters of build_feature_vector
RawFields == {
    "f_monthly_income", "f_income_variance", "f_savings_balance",
    "f_months_active",
    "f_total_credits", "f_total_debits", "f_total_transactions",
    "f_avg_credit_amount", "f_avg_debit_amount", "f_recurring_ratio",
    "f_gpa", "f_attendance_rate", "f_platform_rating", "f_avg_weekly_hours",
    "f_business_years", "f_avg_daily_revenue", "f_land_size_acres",
    "f_subsidy_amount", "f_seasonality_index",
    "f_is_student", "f_is_gig", "f_is_shopkeeper", "f_is_rural" }

\* dict.get(key, default)
Get(d, key, default) == IF key \in DOMAIN d THEN d[key] ELSE default

\* the denominators of the five divisions of build_feature_vector, in the
\* order the function performs them
Denominators(a) ==
    << FAdd(F(1), a["f_income_variance"]),
       FMax(a["f_monthly_income"], F(1)),
       FMax(a["f_total_debits"], F(1)),
       FMax(a["f_total_credits"], F(1)),
       FMax(a["f_months_active"], F(1)) >>

\* build_feature_vector raises ZeroDivisionError: a float division by 0.0
BuildRaises(a) == \E k \in 1..Len(Denominators(a)) : IsZero(Denominators(a)[k])

\* build_feature_vector when no division raises: a maps every keyword
\* parameter to its value
build_feature_vector(a) ==
    LET f_monthly_income     == a["f_monthly_income"]
        f_income_variance    == a["f_income_variance"]
        f_savings_balance    == a["f_savings_balance"]
        f_months_active      == a["f_months_active"]
        f_total_credits      == a["f_total_credits"]
        f_total_debits       == a["f_total_debits"]
        f_total_transactions == a["f_total_transactions"]
        f_avg_credit_amount  == a["f_avg_credit_amount"]
        f_avg_debit_amount   == a["f_avg_debit_amount"]
        f_recurring_ratio    == a["f_recurring_ratio"]
        f_gpa                == a["f_gpa"]
        f_attendance_rate    == a["f_attendance_rate"]
        f_platform_rating    == a["f_platform_rating"]
        f_avg_weekly_hours   == a["f_avg_weekly_hours"]
        f_business_years     == a["f_business_years"]
        f_avg_daily_revenue  == a["f_avg_daily_revenue"]
        f_land_size_acres    == a["f_land_size_acres"]
        f_subsidy_amount     == a["f_subsidy_amount"]
        f_seasonality_index  == a["f_seasonality_index"]
        f_is_student         == a["f_is_student"]
        f_is_gig             == a["f_is_gig"]
        f_is_shopkeeper      == a["f_is_shopkeeper"]
        f_is_rural           == a["f_is_rural"]
        \* the columns of the vector, given the derived columns that are read
        \* more than once
        Columns(f_income_stability, f_savings_ratio, f_net_cashflow) ==
    LET f_liquidity_buffer   == f_savings_ratio
        f_credit_debit_ratio == FDiv(f_total_credits, FMax(f_total_debits, F(1)))
        \* engineered cross features
        stability_adjusted_income == FMul(f_monthly_income, f_income_stability)
        income_risk_index    == FMul(f_monthly_income, FSub(F(1), f_income_stability))
        missed_payment_proxy == FMax(FSub(f_avg_debit_amount, f_avg_credit_amount), Zero(0))
        net_cashflow_ratio   == FDiv(f_net_cashflow, FMax(f_total_credits, F(1)))
        profile_income_signal ==
            FAdd(FAdd(FAdd(FMul(f_avg_daily_revenue, f_is_shopkeeper),
                           FMul(f_subsidy_amount, f_is_rural)),
                      FMul(f_gpa, f_is_student)),
                 FMul(f_platform_rating, f_is_gig))
        profile_rating_signal ==
            FAdd(FAdd(FAdd(FMul(f_platform_rating, f_is_gig),
                           FMul(f_gpa, f_is_student)),
                      FMul(f_attendance_rate, f_is_student)),
                 FMul(f_avg_weekly_hours, f_is_gig))
        transaction_density  == FDiv(f_total_transactions, FMax(f_months_active, F(1)))
    IN  << f_monthly_income, f_income_variance, f_savings_balance,
           f_months_active, f_income_stability, f_savings_ratio,
           f_liquidity_buffer,
           f_total_credits, f_total_debits, f_total_transactions,
           f_avg_credit_amount, f_avg_debit_amount, f_recurring_ratio,
           f_net_cashflow, f_credit_debit_ratio,
           f_gpa, f_attendance_rate, f_platform_rating, f_avg_weekly_hours,
           f_business_years, f_avg_daily_revenue, f_land_size_acres,
           f_subsidy_amount, f_seasonality_index,
           f_is_student, f_is_gig, f_is_shopkeeper, f_is_rural,
           stability_adjusted_income, income_risk_index, missed_payment_proxy,
           net_cashflow_ratio, profile_income_signal, profile_rating_signal,
           transaction_density >>
    \* derived view columns
    IN  Columns(FDiv(F(1), FAdd(F(1), f_income_variance)),
                FDiv(f_savings_balance, FMax(f_monthly_income, F(1))),
                FSub(f_total_credits, f_total_debits))

\* the keyword arguments build_feature_vector_from_record passes on:
\* absent keys default to 0.0
RecordArgs(record) == [k \in RawFields |-> Get(record, k, Zero(0))]

\* build_feature_vector_from_record
build_feature_vector_from_record(record) == build_feature_vector(RecordArgs(record))

---------------------------------------------------------------------------
(* train_model.py: the synthetic training data and the training matrix    *)

\* np.maximum(a, b): the larger value, nan when either is nan
NpMaximum(a, b) == IF IsNaN(a) \/ IsNaN(b) THEN NaN ELSE IF FGt(b, a) THEN b ELSE a

\* np.where(cond, x, y) on one row: x where cond is nonzero
NpWhere(cond, x, y) == IF ~IsZero(cond) THEN x ELSE y

\* (profile_labels == tag).astype(float) on one row
IsLabel(label, tag) == IF label = tag THEN F(1) ELSE Zero(0)

\* np.clip(x, lo, hi) on one row
NpClip(x, lo, hi) ==
    LET raised == IF FGt(x, lo) THEN x ELSE lo
    IN  IF IsNaN(x) THEN NaN ELSE IF FLt(raised, hi) THEN raised ELSE hi

\* w * np.clip(x / scale, 0, 1)
Weighted(w, x, scale) == FMul(w, NpClip(FDiv(x, F(scale)), Zero(0), F(1)))

\* the default probability heuristic of one row: the score of the row's
\* profile, 0.0 for a row of no profile
ProfileScore(label, stability, recurring, savings_ratio, missed, income, gpa, attendance, rating, hours, revenue, years, land, season, subsidy) ==
    IF label = "salaried" THEN
        FSub(FAdd(FAdd(FAdd(FMul(Dec(3, 1), stability),
                            FMul(Dec(2, 1), recurring)),
                       FDiv(FMul(Dec(2, 1), NpClip(savings_ratio, Zero(0), F(2))), F(2))),
                  Weighted(Dec(1, 1), income, 12000)),
             Weighted(Dec(2, 1), missed, 5000))
    ELSE IF label = "student" THEN
        FSub(FAdd(FAdd(Weighted(Dec(45, 2), gpa, 4),
                       FMul(Dec(3, 1), attendance)),
                  FDiv(FMul(Dec(25, 2), NpClip(savings_ratio, Zero(0), F(2))), F(2))),
             Weighted(Dec(2, 1), missed, 5000))
    ELSE IF label = "gig" THEN
        FSub(FAdd(FAdd(FAdd(Weighted(Dec(35, 2), rating, 5),
                            FMul(Dec(2, 1), stability)),
                       FDiv(FMul(Dec(2, 1), NpClip(savings_ratio, Zero(0), F(2))), F(2))),
                  Weighted(Dec(1, 1), hours, 60)),
             Weighted(Dec(25, 2), missed, 5000))
    ELSE IF label = "shopkeeper" THEN
        FSub(FAdd(FAdd(FAdd(Weighted(Dec(35, 2), revenue, 15000),
                            FMul(Dec(2, 1), stability)),
                       FDiv(FMul(Dec(2, 1), NpClip(savings_ratio, Zero(0), F(2))), F(2))),
                  Weighted(Dec(1, 1), years, 20)),
             Weighted(Dec(2, 1), missed, 5000))
    ELSE IF label = "rural" THEN
        FSub(FAdd(FAdd(FAdd(Weighted(Dec(35, 2), land, 10),
                            FDiv(FMul(Dec(2, 1), NpClip(savings_ratio, Zero(0), F(2))), F(2))),
                       FMul(Dec(15, 2), FSub(F(1), season))),
                  Weighted(Dec(15, 2), subsidy, 5000)),
             Weighted(Dec(25, 2), missed, 5000))
    ELSE Zero(0)

\* one row of the DataFrame of generate_synthetic_data: d holds the row's
\* profile label and the values the random generator drew for it
generate_synthetic_data(d) ==
    LET is_student    == IsLabel(d.profile, "student")
        is_gig        == IsLabel(d.profile, "gig")
        is_shopkeeper == IsLabel(d.profile, "shopkeeper")
        is_rural      == IsLabel(d.profile, "rural")
        \* core financial raw draws
        f_monthly_income     == NpWhere(is_student, Zero(0), d.income)
        f_income_variance    == d.variance
        f_savings_balance    == d.savings
        f_months_active      == d.months
        \* derived
        f_income_stability   == FDiv(F(1), FAdd(F(1), f_income_variance))
        f_savings_ratio      == FDiv(f_savings_balance, NpMaximum(f_monthly_income, F(1)))
        f_liquidity_buffer   == f_savings_ratio
        \* transaction behaviour
        f_total_credits      == d.credits
        f_total_debits       == d.debits
        f_total_transactions == d.transactions
        f_avg_credit_amount  ==
            FDiv(f_total_credits, NpMaximum(FMul(f_total_transactions, Dec(5, 1)), F(1)))
        f_avg_debit_amount   ==
            FDiv(f_total_debits, NpMaximum(FMul(f_total_transactions, Dec(5, 1)), F(1)))
        f_recurring_ratio    == d.recurring
        f_net_cashflow       == FSub(f_total_credits, f_total_debits)
        f_credit_debit_ratio == FDiv(f_total_credits, NpMaximum(f_total_debits, F(1)))
        \* profile-specific raw signals
        f_gpa                == NpWhere(is_student, d.gpa, Zero(0))
        f_attendance_rate    == NpWhere(is_student, d.attendance, Zero(0))
        f_platform_rating    == NpWhere(is_gig, d.rating, Zero(0))
        f_avg_weekly_hours   == NpWhere(is_gig, d.hours, Zero(0))
        f_business_years     == NpWhere(is_shopkeeper, d.years, Zero(0))
        f_avg_daily_revenue  == NpWhere(is_shopkeeper, d.revenue, Zero(0))
        f_land_size_acres    == NpWhere(is_rural, d.land, Zero(0))
        f_subsidy_amount     == NpWhere(is_rural, d.subsidy, Zero(0))
        f_seasonality_index  == NpWhere(is_rural, d.season, Zero(0))
        \* engineered cross features
        stability_adjusted_income == FMul(f_monthly_income, f_income_stability)
        income_risk_index    == FMul(f_monthly_income, FSub(F(1), f_income_stability))
        missed_payment_proxy == NpMaximum(FSub(f_avg_debit_amount, f_avg_credit_amount), Zero(0))
        net_cashflow_ratio   == FDiv(f_net_cashflow, NpMaximum(f_total_credits, F(1)))
        profile_income_signal ==
            FAdd(FAdd(FAdd(FMul(f_avg_daily_revenue, is_shopkeeper),
                           FMul(f_subsidy_amount, is_rural)),
                      FMul(f_gpa, is_student)),
                 FMul(f_platform_rating, is_gig))
        profile_rating_signal ==
            FAdd(FAdd(FAdd(FMul(f_platform_rating, is_gig),
                           FMul(f_gpa, is_student)),
                      FMul(f_attendance_rate, is_student)),
                 FMul(f_avg_weekly_hours, is_gig))
        transaction_density  == FDiv(f_total_transactions, NpMaximum(f_months_active, F(1)))
        \* default probability heuristic
        score == ProfileScore(d.profile, f_income_stability, f_recurring_ratio,
                              f_savings_ratio, missed_payment_proxy, f_monthly_income,
                              f_gpa, f_attendance_rate, f_platform_rating,
                              f_avg_weekly_hours, f_avg_daily_revenue, f_business_years,
                              f_land_size_acres, f_seasonality_index, f_subsidy_amount)
        p_default == NpClip(FSub(Dec(7, 1), score), Dec(5, 2), Dec(95, 2))
        defaulted == IF FLt(d.noise, p_default) THEN 1 ELSE 0
    IN  [ f_monthly_income     |-> f_monthly_income,
          f_income_variance    |-> f_income_variance,
          f_savings_balance    |-> f_savings_balance,
          f_months_active      |-> f_months_active,
          f_income_stability   |-> f_income_stability,
          f_savings_ratio      |-> f_savings_ratio,
          f_liquidity_buffer   |-> f_liquidity_buffer,
          f_total_credits      |-> f_total_credits,
          f_total_debits       |-> f_total_debits,
          f_total_transactions |-> f_total_transactions,
          f_avg_credit_amount  |-> f_avg_credit_amount,
          f_avg_debit_amount   |-> f_avg_debit_amount,
          f_recurring_ratio    |-> f_recurring_ratio,
          f_net_cashflow       |-> f_net_cashflow,
          f_credit_debit_ratio |-> f_credit_debit_ratio,
          f_gpa                |-> f_gpa,
          f_attendance_rate    |-> f_attendance_rate,
          f_platform_rating    |-> f_platform_rating,
          f_avg_weekly_hours   |-> f_avg_weekly_hours,
          f_business_years     |-> f_business_years,
          f_avg_daily_revenue  |-> f_avg_daily_revenue,
          f_land_size_acres    |-> f_land_size_acres,
          f_subsidy_amount     |-> f_subsidy_amount,
          f_seasonality_index  |-> f_seasonality_index,
          f_is_student         |-> is_student,
          f_is_gig             |-> is_gig,
          f_is_shopkeeper      |-> is_shopkeeper,
          f_is_rural           |-> is_rural,
          stability_adjusted_income |-> stability_adjusted_income,
          income_risk_index    |-> income_risk_index,
          missed_payment_proxy |-> missed_payment_proxy,
          net_cashflow_ratio   |-> net_cashflow_ratio,
          profile_income_signal |-> profile_income_signal,
          profile_rating_signal |-> profile_rating_signal,
          transaction_density  |-> transaction_density,
          defaulted            |-> defaulted,
          _profile             |-> d.profile ]

\* a matrix that reads the columns of a row from the last name to the first
TrainingMatrixRow_reversed(row) ==
    [i \in 1..Len(FEATURE_ORDER) |-> row[FEATURE_ORDER[Len(FEATURE_ORDER) + 1 - i]]]

\* main: X = df[FEATURE_ORDER].values, one row of it: the columns selected
\* by name, in the order of FEATURE_ORDER
TrainingMatrixRow(row) ==
    [i \in 1..Len(FEATURE_ORDER) |-> row[FEATURE_ORDER[i]]]

---------------------------------------------------------------------------
(* The classifier artifact (a pickled scikit-learn object; external).     *)
(*                                                                         *)
(*   n_features_in  number of columns predict_proba accepts                *)
(*   seed           selects the fitted probability surface                 *)
(*   has_ccs        the attribute calibrated_classifiers_ exists           *)
(*   folds          calibrated_classifiers_; each fold has                 *)
(*       steps      the keys of estimator.named_steps                      *)
(*       coef       named_steps["clf"].coef_[0]                            *)
(*       scale      named_steps["scaler"].scale_  (never 0: StandardScaler *)
(*                  stores 1.0 for a constant column)                      *)
(***************************************************************************)

\* the values predict_proba(X)[0, 1] takes in the model: the ends of [0, 1],
\* both sides of every threshold, a tie of the 6-decimal rounding (2^-7) and
\* values next to 1.  No value has 1 - p on a tie of the score rounding:
\* 1.0 - p is a binary subtraction whose last bit decides such a tie, so
\* the ties are left to the direct calls of probability_to_score
ProbGrid ==
    LET Grid(digits) == [i \in 1..Len(digits) |-> Dec(digits[i], 7)] \o <<>>
    IN  Grid(<< 0, 78125, 2000000, 2999994, 2999996,
                3000000, 3000004, 3499996, 3500000,
                3999996, 4000000, 4500000, 5499994,
                5499996, 5500000, 5500004, 7000000,
                9900000, 9975004, 10000000 >>)

\* a number that stands for the bits of a float
Bits(x) ==
    IF x.m = <<>> THEN 0 ELSE (Limb(x.m, 1) + Limb(x.m, 2) + x.e + x.s) % 1000

RECURSIVE SumSeq(_, _)
SumSeq(v, k) == IF k = 0 THEN 0 ELSE Bits(v[k]) + SumSeq(v, k - 1)

\* model.predict_proba(X) raises ValueError on a wrong number of columns
\* and on a column that is inf or nan
PredictRaises(model, X) ==
    \/ Len(X) # model.n_features_in
    \/ \E i \in 1..Len(X) : ~IsFinite(X[i])

\* float(model.predict_proba(X)[0, 1]): a fixed function of the fitted
\* artifact and of X with values in [0, 1]
predict_proba(model, X) ==
    LET Surface(grid) == grid[((model.seed + SumSeq(X, Len(X))) % Len(grid)) + 1]
    IN  Surface(ProbGrid)

---------------------------------------------------------------------------
(* numpy elementwise arithmetic with broadcasting of 1-d arrays *)

Broadcastable(a, b) == Len(a) = Len(b) \/ Len(a) = 1 \/ Len(b) = 1

BLen(a, b) == IF Len(a) = 1 THEN Len(b) ELSE Len(a)

Elem(a, i) == IF Len(a) = 1 THEN a[1] ELSE a[i]

\* a / b of two arrays
VecDiv(a, b) == [i \in 1..BLen(a, b) |-> FDiv(Elem(a, i), Elem(b, i))] \o <<>>

\* a + b of two arrays
VecAdd(a, b) == [i \in 1..BLen(a, b) |-> FAdd(Elem(a, i), Elem(b, i))] \o <<>>

\* a / n of an array and an integer n # 0
VecScale(a, n) == [i \in 1..Len(a) |-> FDiv(a[i], F(n))] \o <<>>

\* a * b of two arrays
VecMul(a, b) == [i \in 1..BLen(a, b) |-> FMul(Elem(a, i), Elem(b, i))] \o <<>>

---------------------------------------------------------------------------
(* main.py: _top_factors *)

FEATURE_LABELS == [
    f_monthly_income          |-> "Monthly income",
    f_income_variance         |-> "Income variance",
    f_savings_balance         |-> "Savings balance",
    f_months_active           |-> "Months of economic activity",
    f_income_stability        |-> "Income stability",
    f_savings_ratio           |-> "Savings-to-income ratio",
    f_liquidity_buffer        |-> "Liquidity buffer",
    f_total_credits           |-> "Total credits",
    f_total_debits            |-> "Total debits",
    f_total_transactions      |-> "Transaction volume",
    f_avg_credit_amount       |-> "Avg credit size",
    f_avg_debit_amount        |-> "Avg debit size",
    f_recurring_ratio         |-> "Recurring payment rate",
    f_net_cashflow            |-> "Net cashflow",
    f_credit_debit_ratio      |-> "Credit-to-debit ratio",
    f_gpa                     |-> "GPA",
    f_attendance_rate         |-> "Attendance rate",
    f_platform_rating         |-> "Platform rating",
    f_avg_weekly_hours        |-> "Avg weekly hours worked",
    f_business_years          |-> "Years in business",
    f_avg_daily_revenue       |-> "Avg daily revenue",
    f_land_size_acres         |-> "Land size (acres)",
    f_subsidy_amount          |-> "Subsidy amount",
    f_seasonality_index       |-> "Seasonality index",
    f_is_student              |-> "Student profile",
    f_is_gig                  |-> "Gig worker profile",
    f_is_shopkeeper           |-> "Shopkeeper profile",
    f_is_rural                |-> "Rural/agri profile",
    stability_adjusted_income |-> "Stability-adjusted income",
    income_risk_index         |-> "Income risk index",
    missed_payment_proxy      |-> "Missed payment signal",
    net_cashflow_ratio        |-> "Net cashflow ratio",
    profile_income_signal     |-> "Profile income signal",
    profile_rating_signal     |-> "Profile quality signal",
    transaction_density       |-> "Transaction density" ]

\* default of the parameter n of _top_factors
TopN == 5

\* outcome of a block of code: a value, or an exception raised part-way
\* (v then holds what had been built when it was raised)
\* one pass of the loop over calibrated_classifiers_:
\* coef = lr.coef_[0] / scaler.scale_
FoldCoef(fold) ==
    IF ~({"clf", "scaler"} \subseteq fold.steps) THEN Raised(<<>>)      \* KeyError
    ELSE IF ~Broadcastable(fold.coef, fold.scale) THEN Raised(<<>>)     \* ValueError
    ELSE Ok(VecDiv(fold.coef, fold.scale))

\* the loop over calibrated_classifiers_ from fold k on:
\* coef_sum = coef if coef_sum is None else coef_sum + coef
\* (acc is coef_sum; isNone tells that it is still None)
RECURSIVE CoefSum(_, _, _, _)

\* the rest of one pass, c being the outcome of coef = lr.coef_[0] / scaler.scale_
Accumulate(folds, k, isNone, acc, c) ==
    IF ~c.ok THEN Raised(<<>>)
    ELSE IF isNone THEN CoefSum(folds, k + 1, FALSE, c.v)
    ELSE IF ~Broadcastable(acc, c.v) THEN Raised(<<>>)                   \* ValueError
    ELSE CoefSum(folds, k + 1, FALSE, VecAdd(acc, c.v))

CoefSum(folds, k, isNone, acc) ==
    IF k > Len(folds) THEN Ok(acc)
    ELSE Accumulate(folds, k, isNone, acc, FoldCoef(folds[k]))

\* coef_sum / len(model.calibrated_classifiers_), s being the outcome of the loop
Average(s, nfolds) ==
    IF ~s.ok THEN Raised(<<>>)
    ELSE IF nfolds = 0 THEN Raised(<<>>)                                 \* None / 0: TypeError
    ELSE Ok(VecScale(s.v, nfolds))

\* coef_avg
CoefAvg(model) ==
    IF ~model.has_ccs THEN Raised(<<>>)                                  \* AttributeError
    ELSE Average(CoefSum(model.folds, 1, TRUE, <<>>), Len(model.folds))

\* a variant of the comparison that also holds between equal keys
ISLT_le(impacts, a, b) == FLe(FAbs(impacts[a]), FAbs(impacts[b]))

\* the comparison list.sort makes between two entries: key(a) < key(b) with
\* key=lambda i: abs(impacts[i]); False whenever a key is nan
ISLT(impacts, a, b) == FLt(FAbs(impacts[a]), FAbs(impacts[b]))

\* reversal of a list, as reverse=True does before and after the sort
Reverse(s) == [i \in 1..Len(s) |-> s[Len(s) + 1 - i]] \o <<>>

\* the run list.sort finds at the front of s: the last position k - 1 of
\* the run that is strictly descending (descending = TRUE) or never falling
RECURSIVE RunEnd(_, _, _, _)
RunEnd(impacts, s, k, descending) ==
    IF k > Len(s) \/ ISLT(impacts, s[k], s[k - 1]) # descending THEN k - 1
    ELSE RunEnd(impacts, s, k + 1, descending)

\* the binary search of the insertion step: the place of pivot in the
\* sorted s[l..r-1], behind the entries whose key equals its own
RECURSIVE BinarySearch(_, _, _, _, _)
BinarySearch(impacts, s, pivot, l, r) ==
    IF l >= r THEN l
    ELSE LET p == l + ((r - l) \div 2)
         IN  IF ISLT(impacts, pivot, s[p]) THEN BinarySearch(impacts, s, pivot, l, p)
             ELSE BinarySearch(impacts, s, pivot, p + 1, r)

\* the binary insertion sort list.sort runs on a list of fewer than 64
\* entries: s[1..start-1] is sorted, the entries from start on are inserted
RECURSIVE BinarySort(_, _, _)
BinarySort(impacts, s, start) ==
    IF start > Len(s) THEN s
    ELSE LET l == BinarySearch(impacts, s, s[start], 1, start)
         IN  BinarySort(impacts,
                        SubSeq(s, 1, l - 1) \o <<s[start]>> \o SubSeq(s, l, start - 1)
                            \o SubSeq(s, start + 1, Len(s)),
                        start + 1)

\* sorted(range(len(impacts)), key=lambda i: abs(impacts[i]), reverse=True)
\* for fewer than 64 entries: the list is reversed, its leading run is found
\* (and reversed when descending), the rest is inserted, and the result is
\* reversed again.  Equal keys keep their index order; the place of a nan key
\* follows from the comparisons made (indices are 1-based here, 0-based in
\* the program)
SortedByAbsDesc(impacts) ==
    LET s == Reverse([i \in 1..Len(impacts) |-> i])
    IN  IF Len(impacts) < 2 THEN s
        ELSE LET descending == ISLT(impacts, s[2], s[1])
                 n          == RunEnd(impacts, s, 3, descending)
                 run        == IF descending
                               THEN Reverse(SubSeq(s, 1, n)) \o SubSeq(s, n + 1, Len(s))
                               ELSE s
             IN  Reverse(BinarySort(impacts, run, n + 1))

\* s[:n]: the first n entries, all of s when n exceeds its length, and all
\* but the last -n entries when n is negative
Take(s, n) ==
    IF n >= 0 THEN SubSeq(s, 1, Min2(n, Len(s)))
    ELSE SubSeq(s, 1, Max2(Len(s) + n, 0))

\* a variant whose impact keeps the sign of raw_impact
Factor_signed(impacts, i) ==
    LET name       == FEATURE_ORDER[i]
        raw_impact == impacts[i]
    IN  [ label     |-> Get(FEATURE_LABELS, name, name),
          direction |-> IF FGt(raw_impact, Zero(0)) THEN "negative" ELSE "positive",
          impact    |-> FRound(raw_impact, 4) ]

\* a variant that reports a feature of zero impact as "negative"
Factor_nonstrict(impacts, i) ==
    LET name       == FEATURE_ORDER[i]
        raw_impact == impacts[i]
    IN  [ label     |-> Get(FEATURE_LABELS, name, name),
          direction |-> IF FGe(raw_impact, Zero(0)) THEN "negative" ELSE "positive",
          impact    |-> FRound(FAbs(raw_impact), 4) ]

\* one entry of factors: raw_impact = float(impacts[i]),
\* impact = round(abs(raw_impact), 4)
Factor(impacts, i) ==
    LET name       == FEATURE_ORDER[i]
        raw_impact == impacts[i]
    IN  [ label     |-> Get(FEATURE_LABELS, name, name),
          direction |-> IF FGt(raw_impact, Zero(0)) THEN "negative" ELSE "positive",
          impact    |-> FRound(FAbs(raw_impact), 4) ]

\* a variant of the loop that leaves out the features of zero impact
RECURSIVE FactorLoop_nonzero(_, _, _, _)
FactorLoop_nonzero(impacts, top_idx, k, factors) ==
    IF k > Len(top_idx) THEN Ok(factors)
    ELSE IF top_idx[k] > Len(FEATURE_ORDER) THEN Raised(factors)
    ELSE FactorLoop_nonzero(impacts, top_idx, k + 1,
                            IF IsZero(impacts[top_idx[k]]) THEN factors
                            ELSE Append(factors, Factor(impacts, top_idx[k])))

\* the loop "for i in top_idx" from position k on; FEATURE_ORDER[i] raises
\* IndexError past the end of FEATURE_ORDER, with factors partly built
RECURSIVE FactorLoop(_, _, _, _)
FactorLoop(impacts, top_idx, k, factors) ==
    IF k > Len(top_idx) THEN Ok(factors)
    ELSE IF top_idx[k] > Len(FEATURE_ORDER) THEN Raised(factors)          \* IndexError
    ELSE FactorLoop(impacts, top_idx, k + 1,
                    Append(factors, Factor(impacts, top_idx[k])))

\* top_idx = sorted(...)[:n], then the loop
RankAndBuild(impacts, n) ==
    FactorLoop(impacts, Take(SortedByAbsDesc(impacts), n), 1, <<>>)

\* x_flat = X.flatten(); impacts = coef_avg * x_flat; avg is the outcome of
\* the computation of coef_avg
Explain(avg, X, n) ==
    IF ~avg.ok THEN Raised(<<>>)
    ELSE IF ~Broadcastable(avg.v, X) THEN Raised(<<>>)                   \* ValueError
    ELSE RankAndBuild(VecMul(avg.v, X), n)

---------------------------------------------------------------------------
(* model.py: train_model, and the classifiers a file at MODEL_PATH may hold *)

\* a fitted coefficient or scale array of the given length
Ramp(len, mul, modulus, shift, unit) ==
    [i \in 1..len |-> Dec((((i * mul) % modulus) - shift) * unit, 1)] \o <<>>

\* one calibration fold whose arrays have the given lengths
Fold(steps, coefLen, scaleLen, mul) ==
    [ steps |-> steps,
      coef  |-> Ramp(coefLen, mul, 21, 10, 1),
      scale |-> Ramp(scaleLen, mul, 4, -2, 5) ]

AllSteps == {"scaler", "clf"}

Classifier(nf, seed, has_ccs, folds) ==
    [n_features_in |-> nf, seed |-> seed, has_ccs |-> has_ccs, folds |-> folds]

NFeatures == Len(FEATURE_ORDER)

\* cv of CalibratedClassifierCV: the number of calibrated classifiers a
\* trained model keeps
CvFolds == 5

\* the calibrated classifiers of a fit on a matrix of n columns
FittedFolds(n) ==
    [f \in 1..CvFolds |-> Fold(AllSteps, n, n, <<37, 11, 13, 17, 23>>[f])] \o <<>>

\* the CalibratedClassifierCV train_model fits on the columns of
\* FEATURE_ORDER
GoodClassifier(seed) == Classifier(NFeatures, seed, TRUE, FittedFolds(NFeatures))

\* train_model: the classifier fitted on the matrix X and the labels y.
\* The fit is scikit-learn's; the artifact has the columns of X.
train_model(X, y) == Classifier(Len(X), 0, TRUE, FittedFolds(Len(X)))

\* artifacts whose explanation structure is not the expected one
OddClassifiers == {
    \* a plain pipeline: no calibrated_classifiers_
    Classifier(NFeatures, 3, FALSE, <<>>),
    \* no folds
    Classifier(NFeatures, 5, TRUE, <<>>),
    \* a fold without a scaler step
    Classifier(NFeatures, 7, TRUE, << Fold(AllSteps, NFeatures, NFeatures, 37),
                                      Fold({"clf"}, NFeatures, NFeatures, 11) >>),
    \* coef_ and scale_ of different lengths
    Classifier(NFeatures, 8, TRUE, << Fold(AllSteps, NFeatures, NFeatures - 1, 37) >>),
    \* folds of different lengths
    Classifier(NFeatures, 10, TRUE, << Fold(AllSteps, NFeatures, NFeatures, 37),
                                       Fold(AllSteps, NFeatures - 5, NFeatures - 5, 11) >>),
    \* coefficients shorter than the vector
    Classifier(NFeatures, 12, TRUE, << Fold(AllSteps, NFeatures - 5, NFeatures - 5, 37) >>),
    \* one coefficient, broadcast over the vector
    Classifier(NFeatures, 14, TRUE, << Fold(AllSteps, 1, 1, 37) >>),
    \* trained on one more column than FEATURE_ORDER has
    Classifier(NFeatures + 1, 0, TRUE, << Fold(AllSteps, NFeatures + 1, NFeatures + 1, 37),
                                          Fold(AllSteps, NFeatures + 1, NFeatures + 1, 11) >>) }

\* a CalibratedClassifierCV trained on FEATURE_ORDER whose folds have
\* every coefficient 0.0 (the fit of a fully regularised regression)
FlatClassifier ==
    Classifier(NFeatures, 1, TRUE,
               [f \in 1..CvFolds |->
                   [ steps |-> AllSteps,
                     coef  |-> [i \in 1..NFeatures |-> Zero(0)] \o <<>>,
                     scale |-> [i \in 1..NFeatures |-> F(1)] \o <<>> ]] \o <<>>)

Classifiers ==
    {GoodClassifier(seed) : seed \in 0..(Len(ProbGrid) - 1)}
    \cup OddClassifiers \cup {FlatClassifier}

---------------------------------------------------------------------------
(* main.py: _top_factors *)

\* coef_avg of each classifier of Classifiers: the outcome of CoefAvg, kept
\* so that it is evaluated once per classifier
CoefAvgOf == [m \in Classifiers |-> CoefAvg(m)] @@ <<>>

\* the body of the try block of _top_factors
TopFactorsTry(model, X, n) ==
    Explain(IF model \in Classifiers THEN CoefAvgOf[model] ELSE CoefAvg(model), X, n)

\* a variant that hands back the entries built before the exception
_top_factors_partial(model, X, n) == TopFactorsTry(model, X, n).v

\* except Exception: return []
Caught(r) == IF r.ok THEN r.v ELSE <<>>

\* _top_factors: try ... except Exception: return []
_top_factors(model, X, n) == Caught(TopFactorsTry(model, X, n))

---------------------------------------------------------------------------
(* main.py: _make_response, _form_to_record *)

\* a variant that scores the default probability instead of its complement
_make_response_unflipped(model, X, profile, n) ==
    LET Response(proba_default, proba_repay, threshold, score) ==
            IF ~score.ok THEN score
            ELSE Ok([ repayment_probability    |-> FRound(proba_repay, 6),
                      default_probability      |-> FRound(proba_default, 6),
                      alternative_credit_score |-> score.v,
                      predicted_default        |-> FGe(proba_default, threshold),
                      risk_band                |-> probability_to_risk_band(proba_default),
                      top_factors              |-> _top_factors(model, X, n) ])
        \* proba_repay = 1.0 - proba_default; threshold = _get_threshold(profile)
        Scored(proba_default) ==
            Response(proba_default, FSub(F(1), proba_default), _get_threshold(profile),
                     probability_to_score(proba_default))
    IN  IF PredictRaises(model, X) THEN Raised("ValueError")
        ELSE Scored(predict_proba(model, X))

\* _make_response; n is the default n of _top_factors.  An exception of
\* predict_proba leaves the function.
_make_response(model, X, profile, n) ==
    LET Response(proba_default, proba_repay, threshold, score) ==
            IF ~score.ok THEN score
            ELSE Ok([ repayment_probability    |-> FRound(proba_repay, 6),
                      default_probability      |-> FRound(proba_default, 6),
                      alternative_credit_score |-> score.v,
                      predicted_default        |-> FGe(proba_default, threshold),
                      risk_band                |-> probability_to_risk_band(proba_default),
                      top_factors              |-> _top_factors(model, X, n) ])
        \* proba_repay = 1.0 - proba_default; threshold = _get_threshold(profile)
        Scored(proba_default) ==
            Response(proba_default, FSub(F(1), proba_default), _get_threshold(profile),
                     probability_to_score(FSub(F(1), proba_default)))
    IN  IF PredictRaises(model, X) THEN Raised("ValueError")
        ELSE Scored(predict_proba(model, X))

\* x if x is not None else 0.0, for an Optional[float] field: <<>> is None,
\* <<v>> is the value v
OrZero(opt) == IF opt # <<>> THEN opt[1] ELSE Zero(0)

\* a variant that also raises every flag of a salaried borrower
ProfileFlag_salaried(profile, tag) ==
    IF profile = tag \/ profile = salaried THEN F(1) ELSE Zero(0)

\* 1.0 if profile == tag else 0.0
ProfileFlag(profile, tag) == IF profile = tag THEN F(1) ELSE Zero(0)

\* _form_to_record
_form_to_record(body) ==
    LET profile == NormalizeProfile(body.profile_type)
    IN  [ f_monthly_income     |-> body.monthly_income,
          f_income_variance    |-> body.income_variance,
          f_savings_balance    |-> body.savings_balance,
          f_months_active      |-> body.months_active,
          f_total_credits      |-> body.total_credits,
          f_total_debits       |-> body.total_debits,
          f_total_transactions |-> body.total_transactions,
          f_avg_credit_amount  |-> body.avg_credit_amount,
          f_avg_debit_amount   |-> body.avg_debit_amount,
          f_recurring_ratio    |-> body.recurring_ratio,
          f_gpa                |-> OrZero(body.gpa),
          f_attendance_rate    |-> OrZero(body.attendance_rate),
          f_platform_rating    |-> OrZero(body.platform_rating),
          f_avg_weekly_hours   |-> OrZero(body.avg_weekly_hours),
          f_business_years     |-> OrZero(body.business_years),
          f_avg_daily_revenue  |-> OrZero(body.avg_daily_revenue),
          f_land_size_acres    |-> OrZero(body.land_size_acres),
          f_subsidy_amount     |-> OrZero(body.subsidy_amount),
          f_seasonality_index  |-> OrZero(body.seasonality_index),
          f_is_student         |-> ProfileFlag(profile, student),
          f_is_gig             |-> ProfileFlag(profile, gig),
          f_is_shopkeeper      |-> ProfileFlag(profile, shopkeeper),
          f_is_rural           |-> ProfileFlag(profile, rural) ]

---------------------------------------------------------------------------
(* main.py: the holder and get_model *)

\* Python's None
None == [none |-> TRUE]

\* _state = {}
EmptyDict == [k \in {} |-> None]

\* _state.get("model")
StateModel(st) == Get(st, "model", None)

\* an HTTP outcome: status 200 with a body, or an HTTPException / failure
Http(status, detail, body) == [status |-> status, detail |-> detail, body |-> body]

NoBody == <<>>

NotLoaded == Http(503, "Model not loaded", NoBody)

\* a variant that reports the missing model as an internal error
get_model_500(st) ==
    LET model == StateModel(st)
    IN  IF model = None THEN Raised(Http(500, "Model not loaded", NoBody)) ELSE Ok(model)

\* get_model: the model, or HTTPException(503)
get_model(st) ==
    LET model == StateModel(st)
    IN  IF model = None THEN Raised(NotLoaded) ELSE Ok(model)

---------------------------------------------------------------------------
(* main.py: endpoints, as functions of the holder and the request *)

\* a variant of the profile check that accepts every tag
ProfileOk_any(profile) == TRUE

\* profile in PROFILE_TYPES
ProfileOk(profile) == InProfileTypes(profile)

\* a variant that reports whether the holder has the key "model"
health_haskey(st) ==
    Http(200, "", [status |-> "ok", model_loaded |-> "model" \in DOMAIN st])

\* GET /health
health(st) ==
    Http(200, "", [status |-> "ok", model_loaded |-> StateModel(st) # None])

\* GET /
root == Http(200, "", [message |-> "Alternative Credit Scoring API"])

\* return _make_response(...), or except Exception as e:
\* raise HTTPException(status_code=500, detail=str(e))
Answer(r) == IF r.ok THEN Http(200, "", r.v) ELSE Http(500, r.v, NoBody)

\* the try block of score, m being the outcome of get_model()
ScoreTry(m, body, profile) ==
    IF ~m.ok THEN m.v                                           \* except HTTPException: raise
    ELSE Answer(_make_response(m.v,
                               build_feature_vector_from_record(_form_to_record(body)),
                               profile, TopN))

\* score after profile = body.profile_type.lower().strip()
ScoreChecked(st, body, profile) ==
    IF ~ProfileOk(profile) THEN Http(422, "profile_type must be one of", NoBody)
    ELSE ScoreTry(get_model(st), body, profile)

\* POST /score
score(st, body) == ScoreChecked(st, body, NormalizeProfile(body.profile_type))

\* the loop of score_batch from item k on
RECURSIVE BatchLoop(_, _, _, _)

\* results.append(...), r being the outcome of _make_response; its exception
\* has no handler, so the framework answers 500 without the message
BatchAppend(model, borrowers, k, results, r) ==
    IF r.ok THEN BatchLoop(model, borrowers, k + 1, Append(results, r.v))
    ELSE Http(500, "Internal Server Error", NoBody)

\* one pass of the loop after profile = borrower.profile_type.lower().strip()
BatchItem(model, borrowers, k, results, profile) ==
    IF ~ProfileOk(profile) THEN Http(422, "Invalid profile_type in batch item", NoBody)
    ELSE BatchAppend(model, borrowers, k, results,
             _make_response(model,
                 build_feature_vector_from_record(_form_to_record(borrowers[k])),
                 profile, TopN))

BatchLoop(model, borrowers, k, results) ==
    IF k > Len(borrowers)
    THEN Http(200, "", [results |-> results, count |-> Len(results)])
    ELSE BatchItem(model, borrowers, k, results,
                   NormalizeProfile(borrowers[k].profile_type))

\* max_length of BatchScoreRequest.borrowers
MaxBorrowers == 50

\* a variant that checks every profile tag before it looks at the classifier
BatchWith_tagsfirst(m, borrowers) ==
    IF \E i \in 1..Len(borrowers) : ~ProfileOk(NormalizeProfile(borrowers[i].profile_type))
    THEN Http(422, "Invalid profile_type in batch item", NoBody)
    ELSE IF ~m.ok THEN m.v ELSE BatchLoop(m.v, borrowers, 1, <<>>)

\* score_batch, m being the outcome of model = get_model()
BatchWith(m, borrowers) ==
    IF ~m.ok THEN m.v ELSE BatchLoop(m.v, borrowers, 1, <<>>)

\* POST /score/batch (BatchScoreRequest admits 1..50 borrowers)
score_batch(st, borrowers) ==
    IF Len(borrowers) < 1 \/ Len(borrowers) > MaxBorrowers
    THEN Http(422, "borrowers: list length", NoBody)
    ELSE BatchWith(get_model(st), borrowers)

\* a variant that takes the profile from the one-hot columns
PredictTry_flags(m, body) ==
    IF ~m.ok THEN m.v
    ELSE Answer(_make_response(m.v, build_feature_vector_from_record(body),
                               IF body["f_is_student"] = F(1) THEN student
                               ELSE IF body["f_is_rural"] = F(1) THEN rural
                               ELSE salaried,
                               TopN))

\* the try block of predict, m being the outcome of get_model()
PredictTry(m, body) ==
    IF ~m.ok THEN m.v
    ELSE Answer(_make_response(m.v, build_feature_vector_from_record(body),
                               salaried, TopN))

\* POST /predict; body is body.model_dump()
predict(st, body) == PredictTry(get_model(st), body)

---------------------------------------------------------------------------
(* model.py: load_model, and the files that may sit at MODEL_PATH *)

Pickle(obj) == [file |-> "pickle", obj |-> obj]

\* save_model: joblib.dump(model, DEFAULT_MODEL_PATH)
save_model(model) == Pickle(model)

Missing == [file |-> "missing", obj |-> None]

Corrupt == [file |-> "corrupt", obj |-> None]

Disks == {Pickle(c) : c \in Classifiers} \cup {Missing, Corrupt}

\* load_model: FileNotFoundError when there is no file; joblib.load raises
\* on a file that is not a pickle
load_model(d) ==
    IF d.file = "missing" THEN Raised("FileNotFoundError")
    ELSE IF d.file = "corrupt" THEN Raised("UnpicklingError")
    ELSE Ok(d.obj)

---------------------------------------------------------------------------
(* Requests the model sends *)

\* ScoreRequest with every field at its default
DefaultBody ==
    [ profile_type |-> salaried,
      monthly_income |-> Zero(0), income_variance |-> Zero(0), savings_balance |-> Zero(0),
      months_active |-> Zero(0), total_credits |-> Zero(0), total_debits |-> Zero(0),
      total_transactions |-> Zero(0), avg_credit_amount |-> Zero(0), avg_debit_amount |-> Zero(0),
      recurring_ratio |-> Zero(0),
      gpa |-> <<>>, attendance_rate |-> <<>>, platform_rating |-> <<>>,
      avg_weekly_hours |-> <<>>, business_years |-> <<>>,
      avg_daily_revenue |-> <<>>, land_size_acres |-> <<>>,
      subsidy_amount |-> <<>>, seasonality_index |-> <<>> ]

\* a salaried borrower
SalariedBody ==
    [DefaultBody EXCEPT !.monthly_income = F(80), !.income_variance = F(3),
                        !.savings_balance = F(120), !.months_active = F(24),
                        !.total_credits = F(50), !.total_debits = F(40),
                        !.total_transactions = F(12), !.recurring_ratio = Dec(4, 1)]

StudentBody ==
    [DefaultBody EXCEPT !.profile_type = Text(<<"S","t","u","d","e","n","t">>),
                        !.gpa = <<Dec(37, 1)>>, !.attendance_rate = <<Dec(9, 1)>>,
                        !.savings_balance = F(5), !.total_credits = F(10),
                        !.total_debits = F(8), !.total_transactions = F(6),
                        !.months_active = F(12)]

\* the tag is "\x0b gig\xa0": a vertical tab and a no-break space around it
GigBody ==
    [DefaultBody EXCEPT !.profile_type = <<11>> \o Text(<<" ","g","i","g">>) \o <<160>>,
                        !.platform_rating = <<Dec(42, 1)>>, !.avg_weekly_hours = <<F(35)>>,
                        !.monthly_income = Dec(5, 1), !.income_variance = F(1),
                        !.savings_balance = F(12),
                        !.total_credits = F(30), !.total_debits = F(60),
                        !.avg_credit_amount = F(1), !.avg_debit_amount = Dec(25, 1),
                        !.total_transactions = F(20), !.recurring_ratio = Dec(3, 1)]

\* the tag is "SHOP\u212aEEPER": the Kelvin sign lower-cases to "k"
ShopkeeperBody ==
    [DefaultBody EXCEPT !.profile_type =
                            Text(<<"S","H","O","P">>) \o <<8490>> \o Text(<<"E","E","P","E","R">>),
                        !.business_years = <<F(5)>>, !.avg_daily_revenue = <<F(20)>>,
                        !.monthly_income = F(60), !.income_variance = F(3)]

RuralBody ==
    [DefaultBody EXCEPT !.profile_type = Text(<<"R","u","r","a","l","\n">>),
                        !.land_size_acres = <<Dec(25, 1)>>, !.subsidy_amount = <<F(10)>>,
                        !.seasonality_index = <<Dec(5, 1)>>]

FarmerBody ==
    [SalariedBody EXCEPT !.profile_type = Text(<<"f","a","r","m","e","r">>)]

BlankBody ==
    [DefaultBody EXCEPT !.profile_type = Text(<<" ">>)]

\* "monthly_income": Infinity passes the check ge=0
InfiniteBody ==
    [DefaultBody EXCEPT !.monthly_income = Inf(0)]

ScoreBodies == {DefaultBody, SalariedBody, StudentBody, GigBody, ShopkeeperBody,
                RuralBody, FarmerBody, BlankBody, InfiniteBody}

RECURSIVE SeqsUpTo(_, _)
SeqsUpTo(S, n) ==
    IF n = 0 THEN {<<>>}
    ELSE LET shorter == SeqsUpTo(S, n - 1)
         IN  shorter \cup {Append(q, x) : q \in {t \in shorter : Len(t) = n - 1}, x \in S}

\* every batch of up to MaxBatch of three records, and the batches in which
\* a record with an infinite amount stands alone or follows a scorable one
Batches ==
    SeqsUpTo({GigBody, StudentBody, FarmerBody}, MaxBatch)
        \cup {<<InfiniteBody>>, <<GigBody, InfiniteBody>>}

\* BASE of _smoke_test.py: every f_* column 0.0
BASE == [k \in RawFields |-> Zero(0)]

\* the salaried borrower of _smoke_test.py
SmokeSalaried ==
    ("f_monthly_income" :> F(8000)) @@ ("f_income_variance" :> F(200))
        @@ ("f_savings_balance" :> F(15000)) @@ ("f_months_active" :> F(24))
        @@ ("f_total_credits" :> F(50000)) @@ ("f_total_debits" :> F(35000))
        @@ ("f_total_transactions" :> F(120)) @@ ("f_recurring_ratio" :> Dec(4, 1))
        @@ BASE

\* the student of _smoke_test.py
SmokeStudent ==
    ("f_gpa" :> Dec(37, 1)) @@ ("f_attendance_rate" :> Dec(9, 1))
        @@ ("f_savings_balance" :> F(5000)) @@ ("f_total_credits" :> F(10000))
        @@ ("f_total_debits" :> F(8000)) @@ ("f_total_transactions" :> F(40))
        @@ ("f_months_active" :> F(12)) @@ ("f_is_student" :> F(1)) @@ BASE

\* PredictRequest bodies (model_dump: every column present)
PredictBodies == {
    BASE,
    SmokeStudent,
    ("f_monthly_income" :> F(80)) @@ ("f_income_variance" :> F(2))
        @@ ("f_total_credits" :> F(50)) @@ ("f_total_debits" :> F(40))
        @@ ("f_subsidy_amount" :> F(10)) @@ ("f_is_rural" :> F(1)) @@ BASE }

\* records handed to the helpers directly, as quick_score does; the last
\* one has only two keys
DirectRecords == PredictBodies \cup
    { SmokeSalaried,
      ("f_monthly_income" :> F(3)) @@ ("f_savings_balance" :> Dec(15, 1)) }

\* records handed to the vector builder alone: infinite amounts, and
\* variances that make 1.0 + f_income_variance zero or negative
ExtremeRecords == {
    ("f_monthly_income" :> Inf(0)) @@ BASE,
    ("f_monthly_income" :> Inf(0)) @@ ("f_income_variance" :> Inf(0)),
    ("f_total_credits" :> Inf(0)) @@ ("f_total_debits" :> Inf(0)),
    ("f_savings_balance" :> Inf(0)) @@ ("f_income_variance" :> F(3)),
    ("f_income_variance" :> FNeg(F(1))) @@ ("f_monthly_income" :> F(80)),
    ("f_income_variance" :> FNeg(F(2))) @@ ("f_monthly_income" :> F(80)) }

\* profile arguments of direct calls of _make_response
DirectProfiles == {salaried, student, rural, Text(<<"f","a","r","m","e","r">>),
                   Text(<<"S","t","u","d","e","n","t">>)}

\* X arguments of direct calls of _top_factors
DirectVectors == { [i \in 1..NFeatures |-> F(1)] \o <<>>,
                   [i \in 1..(NFeatures + 1) |-> F(i)] \o <<>>,
                   <<F(2)>>,
                   [i \in 1..NFeatures |-> IF i <= 3 THEN F(i) ELSE Zero(0)] \o <<>>,
                   [i \in 1..NFeatures |-> Zero(0)] \o <<>> }

---------------------------------------------------------------------------
(* The service.  Calls are made one at a time: a call's action records the *)
(* call and its outcome in last, and Return hands the outcome to the       *)
(* caller, after which the next call can be made.  A lifecycle step        *)
(* forgets the recorded call.                                              *)

Call(op, arg, out) == [op |-> op, arg |-> arg, out |-> out]

NoCall == Call("none", <<>>, <<>>)

Idle == last = NoCall

Init ==
    /\ phase = "init"
    /\ _state = EmptyDict
    /\ disk \in Disks
    /\ training_data = Missing
    /\ last = NoCall

\* lifespan up to the yield
LifespanEnter ==
    /\ phase = "init"
    /\ LET m == load_model(disk)
       IN  \/ /\ m.ok
              /\ _state' = ("model" :> m.v) @@ _state
              /\ phase' = "running"
           \/ /\ ~m.ok /\ m.v = "FileNotFoundError"
              /\ _state' = ("model" :> None) @@ _state
              /\ phase' = "running"
           \/ /\ ~m.ok /\ m.v # "FileNotFoundError"     \* not caught: startup fails
              /\ _state' = _state
              /\ phase' = "crashed"
    /\ UNCHANGED <<disk, training_data>>

\* lifespan after the yield: _state.clear()
LifespanExit ==
    /\ phase = "running"
    /\ _state' = EmptyDict
    /\ phase' = "stopped"
    /\ UNCHANGED <<disk, training_data>>

Startup == LifespanEnter /\ last' = NoCall

Shutdown == LifespanExit /\ last' = NoCall

Return ==
    /\ ~Idle
    /\ last' = NoCall
    /\ UNCHANGED <<phase, _state, disk, training_data>>

Health ==
    /\ Idle
    /\ last' = Call("health", <<>>, health(_state))
    /\ UNCHANGED <<phase, _state, disk, training_data>>

Root ==
    /\ Idle
    /\ last' = Call("root", <<>>, root)
    /\ UNCHANGED <<phase, _state, disk, training_data>>

Score ==
    \E body \in ScoreBodies :
        /\ Idle
        /\ last' = Call("score", body, score(_state, body))
        /\ UNCHANGED <<phase, _state, disk, training_data>>

ScoreBatch ==
    \E borrowers \in Batches :
        /\ Idle
        /\ last' = Call("score_batch", borrowers, score_batch(_state, borrowers))
        /\ UNCHANGED <<phase, _state, disk, training_data>>

Predict ==
    \E body \in PredictBodies :
        /\ Idle
        /\ last' = Call("predict", body, predict(_state, body))
        /\ UNCHANGED <<phase, _state, disk, training_data>>

\* quick_score of _smoke_test.py: the script is a process of its own, in
\* which the lifespan never runs; the model is loaded from the file, the
\* profile is passed as given
QuickScore ==
    \E profile \in DirectProfiles, rec \in DirectRecords :
        /\ Idle
        /\ phase = "init"
        /\ load_model(disk).ok
        /\ last' = Call("quick_score", <<profile, rec>>,
                        _make_response(load_model(disk).v,
                                       build_feature_vector_from_record(rec),
                                       profile, TopN))
        /\ UNCHANGED <<phase, _state, disk, training_data>>

\* _top_factors called on its own, like quick_score from a script
TopFactors ==
    \E X \in DirectVectors, n \in {2, TopN} :
        /\ Idle
        /\ phase = "init"
        /\ load_model(disk).ok
        /\ last' = Call("_top_factors", <<X, n>>,
                        _top_factors(load_model(disk).v, X, n))
        /\ UNCHANGED <<phase, _state, disk, training_data>>

Next ==
    \/ Startup
    \/ Shutdown
    \/ Return
    \/ Health
    \/ Root
    \/ Score
    \/ ScoreBatch
    \/ Predict
    \/ QuickScore
    \/ TopFactors

Spec == Init /\ [][Next]_vars

---------------------------------------------------------------------------
(* The pure helpers on their own: model_utils.py and the vector builder *)

\* 2.0 ** 1020, a finite number whose product with 600.0 overflows
Huge ==
    LET Squared(x) == FMul(x, x)
        p60 == Squared(F(2 ^ 30))
    IN  FMul(Squared(Squared(Squared(Squared(p60)))), p60)

\* numbers handed to the helpers as probabilities: ProbGrid, values
\* outside [0, 1], the ties of the score rounding, numbers whose score is
\* beyond 2^28 (447392.5 and +-2^60), numbers whose score overflows
\* (+-2^1020) and the infinities
ProbInputs ==
    {ProbGrid[i] : i \in 1..Len(ProbGrid)}
    \cup {FNeg(F(1)), Dec(-25, 4), Dec(-1, 7), Dec(1, 7), Dec(8333, 7), Dec(8334, 7),
          Dec(25, 4), Dec(41666, 7), Dec(41667, 7), Dec(75, 4),
          Dec(5, 1), Dec(9999999, 7), Dec(10000001, 7), Dec(10025, 4), F(2),
          Dec(4473925, 1), FMul(F(2 ^ 30), F(2 ^ 30)), FNeg(FMul(F(2 ^ 30), F(2 ^ 30))),
          Huge, FNeg(Huge), Inf(0), Inf(1)}

InitPure ==
    /\ phase = "init"
    /\ _state = EmptyDict
    /\ disk = Missing
    /\ training_data = Missing
    /\ last = NoCall

\* probability_to_score called on two probabilities
CallScore ==
    \E p \in ProbInputs, q \in ProbInputs :
        /\ Idle
        /\ last' = Call("probability_to_score", <<p, q>>,
                        <<probability_to_score(p), probability_to_score(q)>>)
        /\ UNCHANGED <<phase, _state, disk, training_data>>

CallRiskBand ==
    \E p \in ProbInputs :
        /\ Idle
        /\ last' = Call("probability_to_risk_band", p, probability_to_risk_band(p))
        /\ UNCHANGED <<phase, _state, disk, training_data>>

\* build_feature_vector_from_record on a record, and on the record of a form
CallBuild ==
    \E rec \in DirectRecords \cup ExtremeRecords
                \cup {_form_to_record(b) : b \in ScoreBodies} :
        /\ Idle
        /\ last' = Call("build_feature_vector_from_record", rec,
                        IF BuildRaises(RecordArgs(rec))
                        THEN Raised("ZeroDivisionError")
                        ELSE Ok(build_feature_vector_from_record(rec)))
        /\ UNCHANGED <<phase, _state, disk, training_data>>

\* _form_to_record on a form
CallFormToRecord ==
    \E body \in ScoreBodies :
        /\ Idle
        /\ last' = Call("_form_to_record", body, _form_to_record(body))
        /\ UNCHANGED <<phase, _state, disk, training_data>>

\* the values the random generator draws for one training row, inside the
\* ranges generate_synthetic_data draws them from
SteadyDraw ==
    [ profile |-> "salaried",
      income |-> F(8000), variance |-> F(3), savings |-> F(12000), months |-> F(24),
      credits |-> F(5000), debits |-> F(4000), transactions |-> F(20),
      recurring |-> Dec(25, 2),
      gpa |-> Dec(35, 1), attendance |-> Dec(8, 1),
      rating |-> Dec(45, 1), hours |-> F(40),
      years |-> F(5), revenue |-> F(2000),
      land |-> Dec(25, 1), subsidy |-> F(1000), season |-> Dec(5, 1),
      noise |-> Dec(5, 1) ]

StrainedDraw ==
    [ SteadyDraw EXCEPT !.income = F(3000), !.variance = F(1), !.savings = F(1500),
                        !.months = F(10), !.credits = F(2000), !.debits = F(6000),
                        !.transactions = F(40), !.gpa = F(2), !.rating = F(3),
                        !.hours = F(15), !.revenue = F(700), !.subsidy = Zero(0) ]

TrainingProfiles == {"salaried", "student", "gig", "shopkeeper", "rural"}

Draws ==
    { [d EXCEPT !.profile = p] : d \in {SteadyDraw, StrainedDraw}, p \in TrainingProfiles }

\* df.to_csv(DATA_PATH): the file holds the rows
Csv(df) == [file |-> "csv", rows |-> df]

\* train_model.main, with a DataFrame of one row.  Without a file at
\* DATA_PATH the row is generated and written there; with one, the row is
\* read from it.  X and y are taken from the row, the classifier is fitted
\* and save_model writes it to DEFAULT_MODEL_PATH, the MODEL_PATH of the
\* service.  The split and the metrics only print.
CallGenerate ==
    /\ Idle
    /\ \/ /\ training_data = Missing
          /\ \E d \in Draws :
                \E df \in {generate_synthetic_data(d)} :
                    /\ training_data' = Csv(df)
                    /\ disk' = save_model(train_model(TrainingMatrixRow(df), df.defaulted))
                    /\ last' = Call("generate_synthetic_data", d,
                                    [df |-> df, X |-> TrainingMatrixRow(df),
                                     y |-> df.defaulted])
       \/ /\ training_data # Missing
          /\ \E df \in {training_data.rows} :
                /\ disk' = save_model(train_model(TrainingMatrixRow(df), df.defaulted))
                /\ last' = Call("read_csv", df._profile, [y |-> df.defaulted])
          /\ UNCHANGED training_data
    /\ UNCHANGED <<phase, _state>>

NextPure ==
    \/ CallScore
    \/ CallRiskBand
    \/ CallBuild
    \/ CallFormToRecord
    \/ CallGenerate
    \/ Return

SpecPure == InitPure /\ [][NextPure]_vars

---------------------------------------------------------------------------
(* The service under concurrent requests.  The endpoints are plain `def`   *)
(* functions, which the framework runs on worker threads: several requests *)
(* are in flight at once and interleave with each other and with the       *)
(* lifespan.  A request reads the holder once, in get_model() (health: in   *)
(* _state.get), and computes its answer from the object it got.  Here last *)
(* maps each worker thread to the request it is serving.                   *)

\* number of worker threads
MaxThreads == 2

Threads == 1..MaxThreads

\* pc: "idle", "holding" (get_model() has returned model), "done" (the
\* answer out is ready); X is what the request has built with
\* build_feature_vector_from_record: the vector of score and predict, the
\* vectors of score_batch one after the other, <<>> before any is built
Task(pc, op, arg, model, X, out) ==
    [pc |-> pc, op |-> op, arg |-> arg, model |-> model, X |-> X, out |-> out]

IdleTask == Task("idle", "none", <<>>, None, <<>>, <<>>)

\* the model files and the requests of the worker threads
ConcurrentDisks == {Pickle(GoodClassifier(0)), Missing, Corrupt}

ConcurrentScoreBodies == {StudentBody, FarmerBody}

ConcurrentBatches == {<<SalariedBody, StudentBody>>}

ConcurrentPredictBodies == {BASE}

InitConcurrent ==
    /\ phase = "init"
    /\ _state = EmptyDict
    /\ disk \in ConcurrentDisks
    /\ training_data = Missing
    /\ last = [t \in Threads |-> IdleTask]

StartupConcurrent == LifespanEnter /\ UNCHANGED last

ShutdownConcurrent == LifespanExit /\ UNCHANGED last

\* score up to model = get_model(): a request that fails the profile check
\* or finds no model is answered at once
BeginScore(t) ==
    \E body \in ConcurrentScoreBodies :
        /\ last[t].pc = "idle"
        /\ last' = [last EXCEPT ![t] =
                        IF ProfileOk(NormalizeProfile(body.profile_type))
                               /\ get_model(_state).ok
                        THEN Task("holding", "score", body, get_model(_state).v, <<>>, <<>>)
                        ELSE Task("done", "score", body, None, <<>>, score(_state, body))]
        /\ UNCHANGED <<phase, _state, disk, training_data>>

\* a variant that builds the vector in a buffer the worker threads share:
\* it answers from the vector a /predict request has left there
FinishScore_buffer(t) ==
    /\ last[t].pc = "holding"
    /\ last[t].op = "score"
    /\ \E X \in {IF \E u \in Threads : last[u].op = "predict" /\ last[u].X # <<>>
                 THEN last[CHOOSE u \in Threads :
                               last[u].op = "predict" /\ last[u].X # <<>>].X
                 ELSE build_feature_vector_from_record(_form_to_record(last[t].arg))} :
          last' = [last EXCEPT ![t].pc = "done",
                               ![t].X = X,
                               ![t].out = Answer(_make_response(last[t].model, X,
                                              NormalizeProfile(last[t].arg.profile_type),
                                              TopN))]
    /\ UNCHANGED <<phase, _state, disk, training_data>>

\* the rest of score: X = build_feature_vector_from_record(record), then
\* _make_response(model, X, profile) in the try block
FinishScore(t) ==
    /\ last[t].pc = "holding"
    /\ last[t].op = "score"
    /\ \E X \in {build_feature_vector_from_record(_form_to_record(last[t].arg))} :
          last' = [last EXCEPT ![t].pc = "done",
                               ![t].X = X,
                               ![t].out = Answer(_make_response(last[t].model, X,
                                              NormalizeProfile(last[t].arg.profile_type),
                                              TopN))]
    /\ UNCHANGED <<phase, _state, disk, training_data>>

\* how one pass of the loop of score_batch ends: "tag" when the tag is
\* invalid (the vector is not built), "raised" when _make_response raises
\* on the vector built, "scored" otherwise.  _make_response raises when
\* predict_proba or probability_to_score does; _top_factors catches its own
\* exceptions.
PassOf(model, borrower) ==
    IF ~ProfileOk(NormalizeProfile(borrower.profile_type)) THEN "tag"
    ELSE IF \E X \in {build_feature_vector_from_record(_form_to_record(borrower))} :
                \/ PredictRaises(model, X)
                \/ ~probability_to_score(FSub(F(1), predict_proba(model, X))).ok
    THEN "raised"
    ELSE "scored"

\* the number of passes that have built their vector, passes being how the
\* pass of each item would end: the loop stops at the first pass that is
\* not "scored"
PassesBuilt(passes) ==
    Cardinality({i \in 1..Len(passes) :
                    /\ passes[i] # "tag"
                    /\ \A j \in 1..(i - 1) : passes[j] = "scored"})

\* X of every pass of the loop that has built it when the loop ends with
\* answer out, in the order of the passes
BatchVectors(model, borrowers, out) ==
    [i \in 1..(IF out.status = 200 THEN Len(borrowers)
               ELSE PassesBuilt([k \in 1..Len(borrowers) |->
                                    PassOf(model, borrowers[k])])) |->
        build_feature_vector_from_record(_form_to_record(borrowers[i]))] \o <<>>

\* score_batch up to model = get_model()
BeginBatch(t) ==
    \E borrowers \in ConcurrentBatches :
        /\ last[t].pc = "idle"
        /\ last' = [last EXCEPT ![t] =
                        IF get_model(_state).ok
                        THEN Task("holding", "score_batch", borrowers,
                                  get_model(_state).v, <<>>, <<>>)
                        ELSE Task("done", "score_batch", borrowers, None, <<>>,
                                  score_batch(_state, borrowers))]
        /\ UNCHANGED <<phase, _state, disk, training_data>>

\* the loop of score_batch
FinishBatch(t) ==
    /\ last[t].pc = "holding"
    /\ last[t].op = "score_batch"
    /\ \E out \in {BatchWith(Ok(last[t].model), last[t].arg)} :
          last' = [last EXCEPT ![t].pc = "done",
                               ![t].X = BatchVectors(last[t].model, last[t].arg, out),
                               ![t].out = out]
    /\ UNCHANGED <<phase, _state, disk, training_data>>

\* predict up to model = get_model()
BeginPredict(t) ==
    \E body \in ConcurrentPredictBodies :
        /\ last[t].pc = "idle"
        /\ last' = [last EXCEPT ![t] =
                        IF get_model(_state).ok
                        THEN Task("holding", "predict", body, get_model(_state).v, <<>>, <<>>)
                        ELSE Task("done", "predict", body, None, <<>>, predict(_state, body))]
        /\ UNCHANGED <<phase, _state, disk, training_data>>

\* a variant that drops the model from the holder once it has answered
FinishPredict_evict(t) ==
    /\ last[t].pc = "holding"
    /\ last[t].op = "predict"
    /\ \E X \in {build_feature_vector_from_record(last[t].arg)} :
          last' = [last EXCEPT ![t].pc = "done",
                               ![t].X = X,
                               ![t].out = Answer(_make_response(last[t].model, X,
                                              salaried, TopN))]
    /\ _state' = EmptyDict
    /\ UNCHANGED <<phase, disk, training_data>>

\* the rest of predict: X = build_feature_vector_from_record(record), then
\* _make_response(model, X, "salaried") in the try block
FinishPredict(t) ==
    /\ last[t].pc = "holding"
    /\ last[t].op = "predict"
    /\ \E X \in {build_feature_vector_from_record(last[t].arg)} :
          last' = [last EXCEPT ![t].pc = "done",
                               ![t].X = X,
                               ![t].out = Answer(_make_response(last[t].model, X,
                                              salaried, TopN))]
    /\ UNCHANGED <<phase, _state, disk, training_data>>

\* health and root answer in one step
ServeHealth(t) ==
    /\ last[t].pc = "idle"
    /\ last' = [last EXCEPT ![t] = Task("done", "health", <<>>, None, <<>>, health(_state))]
    /\ UNCHANGED <<phase, _state, disk, training_data>>

ServeRoot(t) ==
    /\ last[t].pc = "idle"
    /\ last' = [last EXCEPT ![t] = Task("done", "root", <<>>, None, <<>>, root)]
    /\ UNCHANGED <<phase, _state, disk, training_data>>

\* the answer is sent; the thread takes the next request
Respond(t) ==
    /\ last[t].pc = "done"
    /\ last' = [last EXCEPT ![t] = IdleTask]
    /\ UNCHANGED <<phase, _state, disk, training_data>>

NextConcurrent ==
    \/ StartupConcurrent
    \/ ShutdownConcurrent
    \/ \E t \in Threads :
          \/ BeginScore(t)
          \/ FinishScore(t)
          \/ BeginBatch(t)
          \/ FinishBatch(t)
          \/ BeginPredict(t)
          \/ FinishPredict(t)
          \/ ServeHealth(t)
          \/ ServeRoot(t)
          \/ Respond(t)

SpecConcurrent == InitConcurrent /\ [][NextConcurrent]_vars

---------------------------------------------------------------------------
(* Properties *)

\* the vector the scoring path builds for a form
VectorOf(body) == build_feature_vector_from_record(_form_to_record(body))

ScoringOps == {"score", "score_batch", "predict"}

\* every scoring result held in last, with what it was computed from:
\* <<classifier, vector, profile passed to _make_response, result>>
ScoredItems ==
    IF last.op = "score" /\ last.out.status = 200
    THEN {<<StateModel(_state), VectorOf(last.arg),
            NormalizeProfile(last.arg.profile_type), last.out.body>>}
    ELSE IF last.op = "predict" /\ last.out.status = 200
    THEN {<<StateModel(_state), build_feature_vector_from_record(last.arg),
            salaried, last.out.body>>}
    ELSE IF last.op = "score_batch" /\ last.out.status = 200
    THEN {<<StateModel(_state), VectorOf(last.arg[i]),
            NormalizeProfile(last.arg[i].profile_type), last.out.body.results[i]>> :
            i \in (1..Len(last.arg)) \cap (1..Len(last.out.body.results))}
    ELSE IF last.op = "quick_score" /\ last.out.ok
    THEN {<<load_model(disk).v, build_feature_vector_from_record(last.arg[2]),
            last.arg[1], last.out.v>>}
    ELSE {}

\* the count the documentation gives: "Total = 36 features", "shape (1, 36)"
DocumentedFeatures == 36

\* C1: build_feature_vector_from_record returns exactly 36 numbers for every
\* valid record, and FEATURE_ORDER has exactly 36 entries.
C1_VectorHas36 ==
    (last.op = "build_feature_vector_from_record" /\ last.out.ok) =>
        /\ Len(last.out.v) = DocumentedFeatures
        /\ Len(FEATURE_ORDER) = DocumentedFeatures

\* the band the documented thresholds give to a probability of 6 decimals:
\* Low below 0.30, Medium below 0.55, High from 0.55
BandOfReturned(p6) ==
    IF FLt(p6, Dec(30, 2)) THEN "Low"
    ELSE IF FLt(p6, Dec(55, 2)) THEN "Medium" ELSE "High"

\* C2: in every scoring response the risk_band is the band of the returned
\* (6-decimal) default_probability.
C2_BandOfReturnedProbability ==
    \A it \in ScoredItems : it[4].risk_band = BandOfReturned(it[4].default_probability)

\* the explanation structure of classifier m cannot be applied to vector X:
\* told from the artifact alone, not from a run of _top_factors
FoldBroken(fold) ==
    \/ "clf" \notin fold.steps
    \/ "scaler" \notin fold.steps
    \/ (Len(fold.coef) # Len(fold.scale) /\ Len(fold.coef) # 1 /\ Len(fold.scale) # 1)

FoldLen(fold) == IF Len(fold.coef) = 1 THEN Len(fold.scale) ELSE Len(fold.coef)

ExplanationBroken(m, X) ==
    \/ ~m.has_ccs
    \/ Len(m.folds) = 0
    \/ \E k \in 1..Len(m.folds) : FoldBroken(m.folds[k])
    \/ \E j, k \in 1..Len(m.folds) :
          FoldLen(m.folds[j]) # FoldLen(m.folds[k])
          /\ FoldLen(m.folds[j]) # 1 /\ FoldLen(m.folds[k]) # 1
    \/ \E k \in 1..Len(m.folds) :
          FoldLen(m.folds[k]) # Len(X) /\ FoldLen(m.folds[k]) # 1 /\ Len(X) # 1

\* C3: when the explanation computation fails at any step, _top_factors
\* returns the empty list (never the entries built so far), and the scoring
\* response is still produced, with top_factors empty and every other field
\* computed from the probability as usual.
C3_ExplanationFailureContained ==
    /\ \A it \in ScoredItems :
          LET m == it[1]
              X == it[2]
              r == it[4]
              p == predict_proba(m, X)
          IN  (ExplanationBroken(m, X) \/ ~Explain(CoefAvgOf[m], X, TopN).ok) =>
                  /\ r.top_factors = <<>>
                  /\ r.default_probability = FRound(p, 6)
                  /\ r.repayment_probability = FRound(FSub(F(1), p), 6)
                  /\ r.alternative_credit_score = probability_to_score(FSub(F(1), p)).v
                  /\ r.risk_band = probability_to_risk_band(p)
                  /\ r.predicted_default = FGe(p, _get_threshold(it[3]))
    /\ (last.op = "score" /\ StateModel(_state) # None
            /\ InProfileTypes(NormalizeProfile(last.arg.profile_type))
            /\ ~PredictRaises(StateModel(_state), VectorOf(last.arg))) =>
          last.out.status = 200
    /\ last.op = "_top_factors" =>
          LET m == load_model(disk).v
          IN  (ExplanationBroken(m, last.arg[1])
                  \/ ~Explain(CoefAvgOf[m], last.arg[1], last.arg[2]).ok) =>
                  last.out = <<>>

\* C3 witnesses: a 200 response of /score on a classifier without
\* calibrated_classifiers_, with an empty factor list
C3_Witness ==
    /\ last.op = "score"
    /\ last.out.status = 200
    /\ ~StateModel(_state).has_ccs
    /\ last.out.body.top_factors = <<>>
    /\ last.out.body.alternative_credit_score >= MinScore

\* startup did not load a classifier
Degraded ==
    \/ phase = "crashed"
    \/ (phase = "running" /\ ~load_model(disk).ok)

\* C4 as stated: in the degraded state every scoring request is answered 503.
C4_DegradedAlways503 ==
    (Degraded /\ last.op \in ScoringOps) => last.out.status = 503

\* the request is turned away by validation before the classifier is looked at
RejectedByValidation ==
    \/ (last.op = "score" /\ ~InProfileTypes(NormalizeProfile(last.arg.profile_type)))
    \/ (last.op = "score_batch" /\ (Len(last.arg) < 1 \/ Len(last.arg) > MaxBorrowers))

\* C4 (amended): in the degraded state no scoring request is scored; each is
\* answered 503, except that a request failing validation first (an unknown
\* profile tag on /score, a list length outside 1..50 on /score/batch) is
\* answered 422; and only the startup step ever makes the classifier loaded.
C4_DegradedRejects ==
    /\ [] ((Degraded /\ last.op \in ScoringOps) =>
              /\ last.out.status # 200
              /\ last.out.body = NoBody
              /\ (RejectedByValidation => last.out.status = 422)
              /\ (~RejectedByValidation => last.out = NotLoaded))
    /\ [][ (phase # "init" /\ StateModel(_state) = None) => StateModel(_state') = None ]_vars

C4_Witness ==
    /\ Degraded
    /\ last.op = "score_batch"
    /\ Len(last.arg) = 2
    /\ last.out.status = 503

\* some borrower of the batch has a tag outside PROFILE_TYPES
HasInvalidTag(borrowers) ==
    \E i \in 1..Len(borrowers) :
        NormalizeProfile(borrowers[i].profile_type)
            \notin {salaried, student, gig, shopkeeper, rural}

FirstInvalid(borrowers) ==
    CHOOSE i \in 1..Len(borrowers) :
        /\ NormalizeProfile(borrowers[i].profile_type)
              \notin {salaried, student, gig, shopkeeper, rural}
        /\ \A j \in 1..(i - 1) :
              NormalizeProfile(borrowers[j].profile_type)
                  \in {salaried, student, gig, shopkeeper, rural}

\* C5 as stated: a batch with an invalid tag fails with the validation error.
C5_InvalidTagAlways422 ==
    (last.op = "score_batch" /\ HasInvalidTag(last.arg)) =>
        (last.out.status = 422 /\ last.out.body = NoBody)

\* C5 (amended): a batch with an invalid tag fails as a whole and returns no
\* results wherever the offending item stands; the failure is the validation
\* error (422) when the classifier is loaded and the items before the first
\* offending one are scored without an internal error, the not-loaded error
\* (503) when the classifier is not loaded, and an internal error (500)
\* when scoring an earlier item raised.
C5_InvalidTagFailsBatch ==
    (last.op = "score_batch" /\ HasInvalidTag(last.arg)) =>
        LET m      == StateModel(_state)
            before == 1..(FirstInvalid(last.arg) - 1)
        IN  /\ last.out.status # 200
            /\ last.out.body = NoBody
            /\ (m = None => last.out.status = 503)
            /\ (m # None =>
                 IF \E j \in before : PredictRaises(m, VectorOf(last.arg[j]))
                 THEN last.out.status = 500
                 ELSE last.out.status = 422)

\* a valid borrower scored, then the offending one
C5_Witness ==
    /\ last.op = "score_batch"
    /\ Len(last.arg) = 2
    /\ StateModel(_state) # None
    /\ HasInvalidTag(last.arg)
    /\ FirstInvalid(last.arg) = 2
    /\ last.out.status = 422
    /\ last.out.body = NoBody

\* a batch of valid records that finds the classifier loaded: 1..50 records
\* that pass the checks of ScoreRequest, each with a tag of PROFILE_TYPES
BatchOfValidRecords(borrowers) ==
    /\ StateModel(_state) # None
    /\ Len(borrowers) >= 1
    /\ Len(borrowers) <= MaxBorrowers
    /\ ~HasInvalidTag(borrowers)

\* C6: with the classifier loaded, a batch of N valid records (1 <= N <= 50)
\* returns exactly N results, result i being the result of scoring record i,
\* and count = N.  (Violated: the loop of score_batch has no handler, so a
\* record whose scoring raises ends the batch with a 500 and no results.)
C6_BatchInOrder ==
    (last.op = "score_batch" /\ BatchOfValidRecords(last.arg)) =>
        /\ last.out.status = 200
        /\ Len(last.out.body.results) = Len(last.arg)
        /\ last.out.body.count = Len(last.arg)
        /\ \A i \in 1..Len(last.arg) :
              last.out.body.results[i] =
                  _make_response(StateModel(_state), VectorOf(last.arg[i]),
                                 NormalizeProfile(last.arg[i].profile_type), TopN).v

\* C7: probability_to_score returns an integer in [300, 900] for every
\* input; for p in [0, 1] it is 300 + 600 p (the float sum) rounded to the
\* nearest integer; inputs outside [0, 1] are clamped; 0 -> 300, 1 -> 900,
\* 0.5 -> 600.  (The call raises when 300 + 600 p is not finite.)
C7_ScoreRange ==
    last.op = "probability_to_score" =>
        LET p == last.arg[1]
            s == last.out[1].v
        IN  /\ last.out[1].ok
            /\ s \in 300..900
            /\ (FGe(p, Zero(0)) /\ FLe(p, F(1))) =>
                   \* |s - (300 + 600 p)| <= 1/2
                   FLe(FAbs(FSub(F(s), FAdd(F(300), FMul(F(600), p)))), Dec(5, 1))
            /\ (FLe(p, Zero(0)) => s = 300)
            /\ (FGe(p, F(1)) => s = 900)
            /\ (p = Dec(5, 1) => s = 600)

\* C8: probability_to_score is non-decreasing: p <= q implies
\* probability_to_score(p) <= probability_to_score(q), across ties and the
\* clamp.  (For a q beyond the clamp whose 300 + 600 q is not finite the call
\* raises and there is no score.)
C8_ScoreMonotone ==
    (last.op = "probability_to_score" /\ FLe(last.arg[1], last.arg[2])) =>
        /\ last.out[1].ok
        /\ last.out[2].ok
        /\ last.out[1].v <= last.out[2].v

\* C9: probability_to_risk_band(p) is Low iff p < 0.30, Medium iff
\* 0.30 <= p < 0.55, High iff p >= 0.55.
C9_BandThresholds ==
    last.op = "probability_to_risk_band" =>
        LET p == last.arg
        IN  /\ last.out \in {"Low", "Medium", "High"}
            /\ (last.out = "Low") = FLt(p, Dec(30, 2))
            /\ (last.out = "Medium") = (FGe(p, Dec(30, 2)) /\ FLt(p, Dec(55, 2)))
            /\ (last.out = "High") = FGe(p, Dec(55, 2))

\* exactly 0.30 is Medium
C9_Witness ==
    /\ last.op = "probability_to_risk_band"
    /\ last.arg = Dec(3, 1)
    /\ last.out = "Medium"

\* the threshold table as the specification gives it
StatedThreshold(profile) ==
    IF profile \in {student, rural} THEN Dec(35, 2) ELSE Dec(40, 2)

\* C10: predicted_default is true exactly when the classifier's default
\* probability is >= the threshold of the profile: 0.40 for salaried, gig and
\* shopkeeper, 0.35 for student and rural, 0.40 for a profile not in the table.
C10_PredictedDefault ==
    \A it \in ScoredItems :
        it[4].predicted_default =
            FGe(predict_proba(it[1], it[2]), StatedThreshold(it[3]))

\* a student exactly at 0.35 is predicted to default
C10_Witness ==
    /\ last.op = "score"
    /\ last.out.status = 200
    /\ NormalizeProfile(last.arg.profile_type) = student
    /\ predict_proba(StateModel(_state), VectorOf(last.arg)) = Pct(35)
    /\ last.out.body.predicted_default

\* the factor lists the program has returned: those of the scoring results
\* and that of a direct call of _top_factors, each with the classifier, the
\* vector and the n it was computed from
FactorLists ==
    {<<it[1], it[2], TopN, it[4].top_factors>> : it \in ScoredItems}
    \cup (IF last.op = "_top_factors"
          THEN {<<load_model(disk).v, last.arg[1], last.arg[2], last.out>>}
          ELSE {})

\* C11: for every classifier structure and feature vector, the top_factors
\* list of a scoring response has at most 5 entries, every entry's impact is
\* >= 0 and every entry's direction is "positive" or "negative".
C11_TopFactorsShape ==
    \A it \in ScoredItems :
        LET tf == it[4].top_factors
        IN  /\ Len(tf) <= 5
            /\ \A k \in 1..Len(tf) :
                  /\ FGe(tf[k].impact, Zero(0))
                  /\ tf[k].direction \in {"positive", "negative"}

\* five entries, one that raises the default risk and one that lowers it
C11_Witness ==
    /\ last.op = "score"
    /\ last.out.status = 200
    /\ Len(last.out.body.top_factors) = 5
    /\ \E j, k \in 1..5 :
          /\ last.out.body.top_factors[j].direction = "negative"
          /\ last.out.body.top_factors[k].direction = "positive"
          /\ FGt(last.out.body.top_factors[k].impact, Zero(0))

\* index j stands before index i in the ranking: a larger absolute impact,
\* or the same one and a smaller index
RanksBefore(impacts, j, i) ==
    LET c == FCmp(FAbs(impacts[j]), FAbs(impacts[i]))
    IN  c = 1 \/ (c = 0 /\ j < i)

\* two ranked lists of indices merged into one
RECURSIVE MergeRanked(_, _, _)
MergeRanked(impacts, a, b) ==
    IF a = <<>> THEN b
    ELSE IF b = <<>> THEN a
    ELSE IF RanksBefore(impacts, a[1], b[1])
         THEN <<a[1]>> \o MergeRanked(impacts, Tail(a), b)
         ELSE <<b[1]>> \o MergeRanked(impacts, a, Tail(b))

\* the indices lo..hi by rank
RECURSIVE RankedRange(_, _, _)
RankedRange(impacts, lo, hi) ==
    IF lo > hi THEN <<>>
    ELSE IF lo = hi THEN <<lo>>
    ELSE MergeRanked(impacts, RankedRange(impacts, lo, (lo + hi) \div 2),
                     RankedRange(impacts, ((lo + hi) \div 2) + 1, hi))

\* the indices of impacts by rank: every index stands after the indices that
\* rank before it
Ranking(impacts) == RankedRange(impacts, 1, Len(impacts))

\* the impacts of classifier m on vector X: averaged unscaled coefficient
\* times feature value
ImpactsOf(m, X) == VecMul(CoefAvgOf[m].v, X)

\* the first n indices of the ranking are features of FEATURE_ORDER
Selectable(ranking, n) ==
    \A k \in 1..Min2(n, Len(ranking)) : ranking[k] <= Len(FEATURE_ORDER)

\* the explanation of X by m can be computed and names only features of
\* FEATURE_ORDER
Explainable(m, X, n) ==
    /\ ~ExplanationBroken(m, X)
    /\ Selectable(Ranking(ImpactsOf(m, X)), n)

\* C12: _top_factors selects the n feature indices with the largest absolute
\* impact, listed in non-increasing order of absolute impact; among features
\* of equal absolute impact the one with the smaller feature-order index
\* comes first and is selected first at the cut-off.
C12_StableRanking ==
    \A fl \in FactorLists :
        LET m       == fl[1]
            X       == fl[2]
            n       == fl[3]
            out     == fl[4]
        IN  ~ExplanationBroken(m, X) =>
              LET impacts == ImpactsOf(m, X)
                  ranking == Ranking(impacts)
              IN  Selectable(ranking, n) =>
                     /\ Len(out) = Min2(n, Len(impacts))
                     /\ \A k \in 1..Len(out) :
                           out[k].label = FEATURE_LABELS[FEATURE_ORDER[ranking[k]]]
                     /\ \A k \in 1..(Len(out) - 1) : FGe(out[k].impact, out[k + 1].impact)

\* a tie at the cut-off: the last selected index and an index left out have
\* the same non-zero absolute impact
C12_Witness ==
    /\ last.op = "_top_factors"
    /\ Explainable(load_model(disk).v, last.arg[1], last.arg[2])
    /\ Len(last.out) = last.arg[2]
    /\ \E impacts \in {ImpactsOf(load_model(disk).v, last.arg[1])} :
          \E cut \in {Ranking(impacts)[last.arg[2]]} :
             /\ ~IsZero(impacts[cut])
             /\ \E j \in 1..Len(impacts) :
                   /\ j > cut
                   /\ (FLe(FAbs(impacts[j]), FAbs(impacts[cut])) /\ FGe(FAbs(impacts[j]), FAbs(impacts[cut])))

\* every field of the record is a number >= 0
NonNegative(record) ==
    \A k \in DOMAIN record : FGe(record[k], Zero(0))

\* C13: for every record whose numeric fields are all non-negative, every
\* division performed while deriving features has a denominator >= 1, so no
\* derived feature is undefined, NaN or infinite and the builder does not
\* raise.
C13_NoUndefinedFeature ==
    (last.op = "build_feature_vector_from_record" /\ NonNegative(last.arg)) =>
        /\ \A k \in 1..Len(Denominators(RecordArgs(last.arg))) :
              FGe(Denominators(RecordArgs(last.arg))[k], F(1))
        /\ last.out.ok
        /\ \A i \in 1..Len(last.out.v) :
              \* a derived feature: not one of the columns passed through
              FEATURE_ORDER[i] \notin RawFields => IsFinite(last.out.v[i])

ProfileFlags == <<"f_is_student", "f_is_gig", "f_is_shopkeeper", "f_is_rural">>

FlagTags == <<student, gig, shopkeeper, rural>>

\* C14: in every record built from a raw scoring request the four profile
\* flags are determined by the normalized profile tag alone: for student,
\* gig, shopkeeper and rural exactly the matching flag is 1.0, for salaried
\* all four are 0.0, and no other flag values occur.
C14_FlagsFromTag ==
    last.op = "_form_to_record" =>
        LET tag == NormalizeProfile(last.arg.profile_type)
            ones == {k \in 1..4 : last.out[ProfileFlags[k]] = F(1)}
        IN  /\ \A k \in 1..4 : last.out[ProfileFlags[k]] \in {Zero(0), F(1)}
            /\ \A k \in 1..4 : (k \in ones) = (tag = FlagTags[k])
            /\ (\E k \in 1..4 : tag = FlagTags[k]) => Cardinality(ones) = 1
            /\ tag = salaried => ones = {}
            /\ Cardinality(ones) <= 1

\* a tag that needs lower-casing and trimming: "Rural\n" raises f_is_rural
C14_Witness ==
    /\ last.op = "_form_to_record"
    /\ last.arg.profile_type = Text(<<"R","u","r","a","l","\n">>)
    /\ last.out["f_is_rural"] = F(1)
    /\ last.out["f_is_student"] = Zero(0)

\* C15: the legacy /predict mode always computes predicted_default against
\* the salaried threshold 0.40, whatever the one-hot profile flags in the
\* supplied columns (f_is_student = 1 still uses 0.40, not 0.35).
C15_PredictUsesSalaried ==
    (last.op = "predict" /\ last.out.status = 200) =>
        last.out.body.predicted_default =
            FGe(predict_proba(StateModel(_state),
                              build_feature_vector_from_record(last.arg)),
                Dec(40, 2))

\* f_is_student = 1 and a default probability in [0.35, 0.40): no default
\* predicted
C15_Witness ==
    /\ last.op = "predict"
    /\ last.out.status = 200
    /\ last.arg["f_is_student"] = F(1)
    /\ FGe(last.out.body.default_probability, Dec(35, 2))
    /\ FLt(last.out.body.default_probability, Dec(40, 2))
    /\ ~last.out.body.predicted_default

\* C16: no request operation (score, score_batch, predict, health, root)
\* ever writes the process-wide classifier holder: it is populated only by
\* the startup step and cleared only by the shutdown step, so under any
\* interleaving of concurrent requests between startup and shutdown every
\* request observes the same classifier value.
C16_HolderWrittenByLifespanOnly ==
    /\ [][ (_state' # _state) =>
              \/ (phase = "init" /\ phase' = "running")
              \/ (phase = "running" /\ phase' = "stopped") ]_vars
    /\ [][ (\E t \in Threads : last'[t] # last[t]) => _state' = _state ]_vars
    /\ [] (\A t, u \in Threads :
              (last[t].pc # "idle" /\ last[t].model # None
                  /\ last[u].pc # "idle" /\ last[u].model # None)
                  => last[t].model = last[u].model)
    /\ [] (\A t \in Threads :
              (last[t].pc # "idle" /\ last[t].model # None)
                  => (load_model(disk).ok /\ last[t].model = load_model(disk).v))

\* two requests of different kinds in flight at once, both holding the
\* classifier startup loaded
C16_Witness ==
    /\ phase = "running"
    /\ last[1].pc = "holding"
    /\ last[2].pc = "holding"
    /\ last[1].op = "score_batch"
    /\ last[2].op = "predict"
    /\ last[1].model = StateModel(_state)

\* the first borrower of the batch that is not scored: its tag is invalid or
\* its scoring raises (0 if there is none)
FirstFailing(m, borrowers) ==
    LET failing == {i \in 1..Len(borrowers) :
                       \/ ~InProfileTypes(NormalizeProfile(borrowers[i].profile_type))
                       \/ PredictRaises(m, VectorOf(borrowers[i]))}
    IN  IF failing = {} THEN 0
        ELSE CHOOSE i \in failing : \A j \in failing : i <= j

\* C17: on every scoring entry point (single, batch and legacy) an unexpected
\* internal error raised while building the vector or computing the
\* probability is surfaced to the caller as the internal-error signal (500)
\* carrying the underlying error message, while validation (422) and
\* not-loaded (503) errors are passed through unchanged and never converted
\* to 500.
C17_InternalErrorCarriesMessage ==
    LET m == StateModel(_state)
    IN  /\ last.op = "score" =>
              IF ~InProfileTypes(NormalizeProfile(last.arg.profile_type))
              THEN last.out.status = 422
              ELSE IF m = None THEN last.out = NotLoaded
              ELSE PredictRaises(m, VectorOf(last.arg)) =>
                      (last.out.status = 500 /\ last.out.detail = "ValueError")
        /\ last.op = "predict" =>
              IF m = None THEN last.out = NotLoaded
              ELSE PredictRaises(m, build_feature_vector_from_record(last.arg)) =>
                      (last.out.status = 500 /\ last.out.detail = "ValueError")
        /\ (last.op = "score_batch" /\ Len(last.arg) >= 1) =>
              IF m = None THEN last.out = NotLoaded
              ELSE LET i == FirstFailing(m, last.arg)
                   IN  i > 0 =>
                         IF ~InProfileTypes(NormalizeProfile(last.arg[i].profile_type))
                         THEN last.out.status = 422
                         ELSE (last.out.status = 500 /\ last.out.detail = "ValueError")

\* C18: the readiness probe reports model_loaded = true exactly when a
\* scoring request issued in the same state would pass the classifier-loaded
\* check, in every lifecycle state: before startup, after a successful load,
\* after a failed load and after shutdown has cleared the holder.
C18_HealthMatchesLoadedCheck ==
    /\ health(_state).status = 200
    /\ health(_state).body.model_loaded = get_model(_state).ok
    /\ health(_state).body.model_loaded = (predict(_state, BASE).status # 503)
    /\ health(_state).body.model_loaded = (phase = "running" /\ load_model(disk).ok)
    /\ last.op = "health" => last.out = health(_state)
    /\ (last.op \in ScoringOps /\ ~RejectedByValidation) =>
          (last.out.status = 503) = ~health(_state).body.model_loaded

\* the probe answered in the degraded state: the holder has the key "model",
\* with the value None
C18_Witness ==
    /\ phase = "running"
    /\ "model" \in DOMAIN _state
    /\ ~load_model(disk).ok
    /\ last.op = "health"
    /\ last.out.status = 200
    /\ ~last.out.body.model_loaded

\* two threads have answered the same scoring request with the same
\* classifier
SameRequest(t, u) ==
    /\ last[t].pc = "done"
    /\ last[u].pc = "done"
    /\ last[t].op \in ScoringOps
    /\ last[t].op = last[u].op
    /\ last[t].arg = last[u].arg
    /\ last[t].model # None
    /\ last[t].model = last[u].model

C20_TrainingMatchesInference ==
    /\ last.op = "generate_synthetic_data" =>
          /\ Len(last.out.X) = Len(FEATURE_ORDER)
          /\ \A i \in 1..Len(FEATURE_ORDER) :
                /\ FEATURE_ORDER[i] \in DOMAIN last.out.df
                /\ last.out.X[i] = last.out.df[FEATURE_ORDER[i]]
          /\ ~BuildRaises(RecordArgs(last.out.df))
          /\ build_feature_vector_from_record(last.out.df) = last.out.X
    /\ (last.op = "build_feature_vector_from_record" /\ last.out.ok) =>
          /\ Len(last.out.v) = Len(FEATURE_ORDER)
          /\ \A i \in 1..Len(FEATURE_ORDER) :
                FEATURE_ORDER[i] \in RawFields =>
                    last.out.v[i] = RecordArgs(last.arg)[FEATURE_ORDER[i]]

\* a student row of the training data whose derived and engineered
\* columns are all nonzero
C20_Witness ==
    /\ last.op = "generate_synthetic_data"
    /\ last.out.df.f_is_student = F(1)
    /\ FGt(last.out.df.f_income_stability, Zero(0))
    /\ FGt(last.out.df.f_savings_ratio, F(1))
    /\ FLt(last.out.df.f_net_cashflow, Zero(0))
    /\ FGt(last.out.df.f_credit_debit_ratio, Zero(0))
    /\ FGt(last.out.df.missed_payment_proxy, Zero(0))
    /\ FGt(last.out.df.profile_income_signal, Zero(0))
    /\ FGt(last.out.df.profile_rating_signal, last.out.df.profile_income_signal)
    /\ FGt(last.out.df.transaction_density, Zero(0))
    /\ build_feature_vector_from_record(last.out.df) = last.out.X

\* x rounded to 4 decimals
Round4(x) == FRound(x, 4)

\* factor f reports the signed impact raw_impact
Reports(f, raw_impact) ==
    /\ (f.direction = "negative") <=> FGt(raw_impact, Zero(0))
    /\ (f.direction = "positive") <=> FLe(raw_impact, Zero(0))
    /\ f.impact = Round4(FAbs(raw_impact))

\* the k-th factor of out reports the impact of the index ranked k-th
ReportsRanked(out, impacts, ranking) ==
    \A k \in 1..Len(out) : Reports(out[k], impacts[ranking[k]])

\* C21: every factor the program reports has direction "negative" exactly
\* when its signed impact (averaged coefficient times feature value) is
\* strictly positive and "positive" otherwise, a zero impact included; its
\* impact is the absolute value of the signed impact rounded to 4 decimals.
C21_DirectionAndImpact ==
    \A fl \in FactorLists :
        ~ExplanationBroken(fl[1], fl[2]) =>
            \A impacts \in {ImpactsOf(fl[1], fl[2])} :
               \A ranking \in {Ranking(impacts)} :
                  Selectable(ranking, fl[3]) => ReportsRanked(fl[4], impacts, ranking)

\* a returned list of five factors that reports a factor of zero impact as
\* "positive", next to one of strictly positive and one of strictly
\* negative impact
C21_Witness ==
    \E fl \in FactorLists :
        /\ Explainable(fl[1], fl[2], fl[3])
        /\ Len(fl[4]) = TopN
        /\ \E impacts \in {ImpactsOf(fl[1], fl[2])} :
              \E top_idx \in {Ranking(impacts)} :
                 \E i, j, k \in 1..TopN :
                    /\ IsZero(impacts[top_idx[i]])
                    /\ fl[4][i].direction = "positive"
                    /\ IsZero(fl[4][i].impact)
                    /\ FGt(impacts[top_idx[j]], Zero(0))
                    /\ fl[4][j].direction = "negative"
                    /\ FLt(impacts[top_idx[k]], Zero(0))
                    /\ fl[4][k].direction = "positive"
                    /\ FGt(fl[4][k].impact, Zero(0))

\* the answer of POST /score to record i of the batch, sent alone
SingleAnswers(borrowers) ==
    [i \in 1..Len(borrowers) |-> score(_state, borrowers[i])]

\* C22: batch mode is the single-record path applied item by item.  For a
\* batch of valid records with the classifier loaded, the batch answers 200
\* with one result per record, and result i of the batch is the body of the
\* answer POST /score gives to record i alone, whatever the other items of
\* the batch are.  (Violated: a record whose scoring raises takes the
\* results of the other records with it, which alone are answered 200.)
C22_BatchEqualsSingle ==
    (last.op = "score_batch" /\ BatchOfValidRecords(last.arg)) =>
        \A single \in {SingleAnswers(last.arg)} :
            /\ last.out.status = 200
            /\ Len(last.out.body.results) = Len(last.arg)
            /\ \A i \in 1..Len(last.arg) :
                  /\ single[i].status = 200
                  /\ last.out.body.results[i] = single[i].body

\* C23: in every scoring response, for every profile, risk_band "Low"
\* implies predicted_default is false and risk_band "High" implies
\* predicted_default is true.
C23_BandAgreesWithDecision ==
    \A it \in ScoredItems :
        /\ it[4].risk_band = "Low" => ~it[4].predicted_default
        /\ it[4].risk_band = "High" => it[4].predicted_default

\* a batch answer with a "Low" result just under 0.30 for a profile of
\* threshold 0.35 and a "High" result
C23_Witness ==
    /\ last.op = "score_batch"
    /\ last.out.status = 200
    /\ \E i, j \in 1..Len(last.out.body.results) :
          /\ last.out.body.results[i].risk_band = "Low"
          /\ ~last.out.body.results[i].predicted_default
          /\ _get_threshold(NormalizeProfile(last.arg[i].profile_type)) = Pct(35)
          /\ FGt(predict_proba(StateModel(_state), VectorOf(last.arg[i])), Pct(25))
          /\ last.out.body.results[j].risk_band = "High"
          /\ last.out.body.results[j].predicted_default

\* C24: in every scoring response the credit score and the risk band agree:
\* "Low" implies alternative_credit_score >= 720, "High" implies
\* alternative_credit_score <= 570, and "Medium" implies
\* 570 <= alternative_credit_score <= 720.
C24_ScoreAgreesWithBand ==
    \A it \in ScoredItems :
        /\ it[4].risk_band = "Low" => it[4].alternative_credit_score >= 720
        /\ it[4].risk_band = "High" => it[4].alternative_credit_score <= 570
        /\ it[4].risk_band = "Medium" =>
              /\ it[4].alternative_credit_score >= 570
              /\ it[4].alternative_credit_score <= 720

\* a "Low" answer at the edge of its band: the default probability is just
\* under 0.30 and the score is 720, the least score a "Low" answer has
C24_Witness ==
    /\ last.op = "score"
    /\ last.out.status = 200
    /\ last.out.body.risk_band = "Low"
    /\ last.out.body.alternative_credit_score = 720
    /\ FGt(predict_proba(StateModel(_state), VectorOf(last.arg)), Pct(29))

\* C25: with no classifier loaded, POST /score on an unknown profile tag
\* checks the tag first and answers 422, whereas POST /score/batch checks
\* the classifier first and answers 503 to every batch of 1..50 records,
\* whether its tags are valid or not; neither answer carries a result.
C25_CheckOrder ==
    StateModel(_state) = None =>
        /\ (last.op = "score"
              /\ ~InProfileTypes(NormalizeProfile(last.arg.profile_type))) =>
              /\ last.out.status = 422
              /\ last.out.body = NoBody
        /\ (last.op = "score_batch"
              /\ Len(last.arg) >= 1 /\ Len(last.arg) <= MaxBorrowers) =>
              /\ last.out.status = 503
              /\ last.out = NotLoaded
              /\ last.out.body = NoBody

\* the service runs without a classifier and a batch whose first tag is
\* unknown, followed by a valid record, is answered 503
C25_Witness ==
    /\ phase = "running"
    /\ StateModel(_state) = None
    /\ last.op = "score_batch"
    /\ Len(last.arg) = 2
    /\ ~InProfileTypes(NormalizeProfile(last.arg[1].profile_type))
    /\ InProfileTypes(NormalizeProfile(last.arg[2].profile_type))
    /\ last.out.status = 503
    /\ score(_state, last.arg[1]).status = 422

\* classifier m is well formed for vector X: it has calibration folds, each
\* with a scaler and a regression step whose scale and coefficient vectors
\* have the length of X
WellFormed(m, X) ==
    /\ m.has_ccs
    /\ Len(m.folds) >= 1
    /\ \A f \in 1..Len(m.folds) :
          /\ {"clf", "scaler"} \subseteq m.folds[f].steps
          /\ Len(m.folds[f].coef) = Len(X)
          /\ Len(m.folds[f].scale) = Len(X)

\* the labels of the features of FEATURE_ORDER
OrderLabels == {FEATURE_LABELS[FEATURE_ORDER[i]] : i \in 1..Len(FEATURE_ORDER)}

\* C26: on a well-formed classifier the top_factors of every scoring
\* response has exactly 5 entries that name 5 different features of
\* FEATURE_ORDER, also when some or all impacts are zero.
C26_FiveDistinctFactors ==
    \A it \in ScoredItems :
        WellFormed(it[1], it[2]) =>
            /\ Len(it[4].top_factors) = 5
            /\ Cardinality({it[4].top_factors[k].label : k \in 1..5}) = 5
            /\ \A k \in 1..5 : it[4].top_factors[k].label \in OrderLabels

\* a scoring response on a classifier whose impacts are all zero: five
\* entries of impact 0 for five different features
C26_Witness ==
    /\ last.op = "score"
    /\ last.out.status = 200
    /\ WellFormed(StateModel(_state), VectorOf(last.arg))
    /\ \A impacts \in {ImpactsOf(StateModel(_state), VectorOf(last.arg))} :
          \A i \in 1..Len(impacts) : IsZero(impacts[i])
    /\ Len(last.out.body.top_factors) = 5
    /\ \A k \in 1..5 : IsZero(last.out.body.top_factors[k].impact)
    /\ Cardinality({last.out.body.top_factors[k].label : k \in 1..5}) = 5

=============================================================================
